---- MODULE Spec2Model ----
(***************************************************************************)
(* A model of the block-view query engine of bigwig-js: BlockView          *)
(* (src/src/blockView.ts), groupBlocks (src/src/util.ts) and Range          *)
(* (src/unnamed/part_002, imported by blockView.ts as './range').           *)
(*                                                                         *)
(* Three specifications share the module:                                  *)
(*   Spec        the query engine: concurrent readWigData calls on one     *)
(*               BlockView, the header read, the CIR traversal, the read   *)
(*               cache and readFeatures;                                   *)
(*   SpecGroup   groupBlocks as a function of its input list;              *)
(*   SpecDecode  the per-block decode step of readFeatures.                *)
(***************************************************************************)
EXTENDS Integers, Sequences, FiniteSets, TLC

VARIABLES
    gInput,         \* SpecGroup: the block list handed to groupBlocks
    gResult,        \* SpecGroup: the groups it returned
    gDone,          \* SpecGroup: whether groupBlocks has run
    tree,           \* the file's CIR tree: node offset -> node
    cirTreePromise, \* BlockView.cirTreePromise: FALSE while unset, TRUE once assigned
    pc,             \* per query: where the body of readWigData stands
    request,        \* per query: {chrId, start, end}
    outstanding,    \* per query: the closure variable `outstanding`
    blocksToFetch,  \* per query: the closure variable `blocksToFetch`
    nodeFetches,    \* per query: the cirFobStartFetch calls awaiting featureCache.get
    rfCalls,        \* per query: how often readFeatures was invoked
    groupGets,      \* per query: the group fetches of readFeatures, in group order
    rfState,        \* per query: none | pending | rejected | completed
    cacheInflight,  \* featureCache: keys whose fill is pending
    cacheResident,  \* featureCache: keys whose buffer is cached
    reads,          \* backing bbi.read calls of fill that are in flight
    headerReads,    \* how many 48-byte header reads were issued
    nexts,          \* per query: observer.next calls received
    completes,      \* per query: observer.complete calls received
    errors,         \* per query: observer.error calls received
    thrown,         \* per query: errors raised (rejected promises) so far
    incompletes,    \* per query: how many of them were 'did not complete'
    chrName,        \* per query: the refName argument of readWigData
    dType,          \* SpecDecode: the BlockView's blockType
    dEntry,         \* SpecDecode: the leaf entry that led to the block
    dBuffer,        \* SpecDecode: the records of the buffer handed to the decoder
    dOffset,        \* SpecDecode: the byte offset decoding starts at
    dRequest,       \* SpecDecode: the request {chrId, start, end}
    dBatch,         \* SpecDecode: the batch passed to observer.next
    dEmitted,       \* SpecDecode: whether observer.next was called
    dBy,            \* SpecDecode: the class whose decoder ran, "" before
    dPruned,        \* SpecDecode: whether the traversal dropped the block's leaf entry
    fType,          \* SpecFeatures: the BlockView's blockType
    fGroups,        \* SpecFeatures: per block group, how many blocks it holds
    fState,         \* SpecFeatures: per group: pending | running | done | rejected
    fIndex,         \* SpecFeatures: per group: blocks its forEach has handled
    fNexts,         \* SpecFeatures: observer.next calls made
    fCompletes,     \* SpecFeatures: observer.complete calls made
    fRejected,      \* SpecFeatures: whether a group's callback has rejected
    fAborted,       \* SpecFeatures: whether opts.signal has fired
    rA, rB, rC,     \* SpecRange: the range sets operated on
    rOp,            \* SpecRange: the operation applied, "" before
    rOut,           \* SpecRange: what the operation produced
    argOffset,      \* SpecConstruct: the cirTreeOffset argument of the constructor
    argLength,      \* SpecConstruct: the cirTreeLength argument of the constructor
    viewState,      \* SpecConstruct: "" before | constructed | thrown
    viewError,      \* SpecConstruct: the message of the error thrown, "" if none
    viewReads,      \* SpecConstruct: bbi.read calls issued through the view
    bType,          \* SpecBlocks: the BlockView's blockType
    bCompressed,    \* SpecBlocks: the BlockView's isCompressed
    bBlocks,        \* SpecBlocks: per block of the group, the records stored in it
    bRequest,       \* SpecBlocks: the request {chrId, start, end}
    bIndex,         \* SpecBlocks: how many blocks the forEach has handled
    bBatches,       \* SpecBlocks: the batches passed to observer.next, in order
    bThrown,        \* SpecBlocks: whether a decoder threw
    bCompletes,     \* SpecBlocks: observer.complete calls made
    oVersion,       \* SpecRound: the source file whose cirFobRecur is called
    oOffsets,       \* SpecRound: the offset list passed to cirFobRecur
    oOutstanding,   \* SpecRound: this.outstanding
    oBefore,        \* SpecRound: this.outstanding before the call
    oBlocks,        \* SpecRound: this.blocksToFetch
    oReads,         \* SpecRound: the (offset, length) of the reads issued by the call
    oThrown,        \* SpecRound: whether the call threw or a fetch it started rejected
    oDone           \* SpecRound: whether the call has been made

groupVars == <<gInput, gResult, gDone>>
engineVars == <<tree, cirTreePromise, pc, request, outstanding, blocksToFetch, nodeFetches,
                rfCalls, groupGets, rfState, cacheInflight, cacheResident, reads,
                headerReads, nexts, completes, errors, thrown, incompletes, chrName>>
decodeVars == <<dType, dEntry, dBuffer, dOffset, dRequest, dBatch, dEmitted, dBy, dPruned>>
featVars == <<fType, fGroups, fState, fIndex, fNexts, fCompletes, fRejected, fAborted>>
rangeVars == <<rA, rB, rC, rOp, rOut>>
viewVars == <<argOffset, argLength, viewState, viewError, viewReads>>
blockVars == <<bType, bCompressed, bBlocks, bRequest, bIndex, bBatches, bThrown, bCompletes>>
roundVars == <<oVersion, oOffsets, oOutstanding, oBefore, oBlocks, oReads, oThrown, oDone>>
vars == <<groupVars, engineVars, decodeVars, featVars, rangeVars, viewVars, blockVars,
          roundVars>>

(***************************************************************************)
(* JavaScript numbers that may be missing.  A number n is <<n>>; undefined *)
(* and NaN are both <<>>: every arithmetic operation on either yields NaN  *)
(* and every comparison with either is false, which is all the code below  *)
(* does with them.                                                         *)
(***************************************************************************)
Num(n) == <<n>>
Undefined == <<>>
IsNum(x) == x # <<>>
JsAdd(x, y) == IF IsNum(x) /\ IsNum(y) THEN <<x[1] + y[1]>> ELSE <<>>
JsSub(x, y) == IF IsNum(x) /\ IsNum(y) THEN <<x[1] - y[1]>> ELSE <<>>
JsLeq(x, y) == IsNum(x) /\ IsNum(y) /\ x[1] <= y[1]

\* x | 0 : ToInt32.  TLC's integers are themselves 32 bits wide and cannot hold
\* 2^31, so the word is scaled to 16 bits: the wrap that JavaScript applies at
\* 2^31 happens here at 2^15, with the same two's-complement arithmetic.
ToInt32(n) == ((n + 2^15) % 2^16) - 2^15

(***************************************************************************)
(* groupBlocks (util.ts).  A block descriptor is a record with an offset   *)
(* and the two byte-count fields that occur in the sources: `size`, which  *)
(* groupBlocks reads and requestWorker.ts writes, and `length`, which      *)
(* blockView.ts writes (cirFobRecur2) and reads (readFeatures, fill).  A   *)
(* field an object does not have reads as undefined.                       *)
(***************************************************************************)
SizeBlock(o, n) == [offset |-> o, size |-> Num(n), length |-> Undefined]
LengthBlock(o, n) == [offset |-> o, size |-> Undefined, length |-> Num(n)]

\* the comparator of blocks.sort
sortCompare(b0, b1) == ToInt32(b0.offset) - ToInt32(b1.offset)

RECURSIVE SortInsert(_, _)
SortInsert(b, s) ==
    IF s = <<>> THEN <<b>>
    ELSE IF sortCompare(b, Head(s)) < 0 THEN <<b>> \o s
    ELSE <<Head(s)>> \o SortInsert(b, Tail(s))

\* no sorting: the blocks in the order of their discovery
SortBlocksNone(blocks) == blocks

\* Array.prototype.sort on a short array: a stable insertion sort
RECURSIVE SortBlocks(_)
SortBlocks(blocks) ==
    IF blocks = <<>> THEN <<>>
    ELSE SortInsert(blocks[Len(blocks)], SortBlocks(SubSeq(blocks, 1, Len(blocks) - 1)))

MergeGapWide == 2000 + 48
\* the largest gap between two blocks that still merges them
MergeGap == 2000

\* the loop of groupBlocks; lastBlock is the last element of blockGroups
RECURSIVE GroupLoop(_, _, _, _)
GroupLoop(blocks, i, blockGroups, lastBlockEnd) ==
    IF i > Len(blocks) THEN blockGroups
    ELSE LET b == blocks[i]
             n == Len(blockGroups)
             merge == /\ blockGroups # <<>>
                      /\ JsLeq(JsSub(Num(b.offset), lastBlockEnd), Num(MergeGap))
             newGroups ==
                 IF merge
                 THEN [blockGroups EXCEPT ![n] =
                          [@ EXCEPT !.size = JsAdd(@, JsAdd(JsSub(b.size, lastBlockEnd),
                                                            Num(b.offset))),
                                    !.blocks = Append(@, b)]]
                 ELSE Append(blockGroups,
                             [blocks |-> <<b>>, size |-> b.size, offset |-> b.offset,
                              length |-> Undefined])
             lastBlock == newGroups[Len(newGroups)]
         IN  GroupLoop(blocks, i + 1, newGroups, JsAdd(Num(lastBlock.offset), lastBlock.size))

\* a loop that starts at the second block
groupBlocksFromSecond(blocks) == GroupLoop(SortBlocks(blocks), 2, <<>>, Undefined)

groupBlocks(blocks) == GroupLoop(SortBlocks(blocks), 1, <<>>, Undefined)

(***************************************************************************)
(* Range (part_002).  A Range holds `ranges`, a list of {min, max}.        *)
(***************************************************************************)
RangeNew(min, max) == <<[min |-> min, max |-> max]>>
Range_min(r) == r[1].min
Range_max(r) == r[Len(r)].max
Range_contains(r, pos) == \E s \in 1..Len(r) : r[s].min <= pos /\ r[s].max >= pos
Range_getRanges(r) == [s \in 1..Len(r) |-> RangeNew(r[s].min, r[s].max)]

\* new Range(arg1) for a list of intervals: `0 in arg1` holds for a non-empty
\* list, and `ranges` becomes Object.assign({}, arg1), an object with the
\* list's elements under the keys 0, 1, ... and without a length; for the empty
\* list it becomes [arg1], an array of length 1.  The field is {length, items}.
RangeOfList(arg1) ==
    IF arg1 # <<>> THEN [length |-> Undefined, items |-> arg1]
    ELSE [length |-> Num(1), items |-> <<arg1>>]
\* the field `ranges` of new Range(min, max)
RangeOfPair(min, max) == [length |-> Num(1), items |-> RangeNew(min, max)]

\* contains on the field: the loop runs while s < this.ranges.length, which is
\* never the case for an undefined length
Range_containsField(ranges, pos) ==
    /\ IsNum(ranges.length)
    /\ \E s \in 1..ranges.length[1] :
          ranges.items[s].min <= pos /\ ranges.items[s].max >= pos

\* union begins with s0.ranges(): `ranges` is the data field the constructor
\* assigns, not a method, so the call raises a TypeError before anything is
\* merged.  The result is {ok, val}: ok is FALSE when the call threw.
Range_union(s0, s1) == [ok |-> FALSE, val |-> <<>>]

\* intersection begins with s0.ranges() as well and raises the same TypeError,
\* before the check for an empty result
Range_intersection(s0, s1) == [ok |-> FALSE, val |-> <<>>]

(***************************************************************************)
(* The file and the BlockView's construction parameters.                   *)
(***************************************************************************)
cirTreeOffset == 0
\* the u32 at byte 4 of the 48-byte CIR header
cirBlockSize == 4

RefsByName == [n \in {"chr1", "chr2"} |-> IF n = "chr1" THEN 0 ELSE 1]
RefNames == {"chr1", "chr2", "chrUn"}
ChrIdOrZero(name) == IF name \in DOMAIN RefsByName THEN Num(RefsByName[name]) ELSE Num(0)
\* refsByName[chrName]
ChrIdOf(name) == IF name \in DOMAIN RefsByName THEN Num(RefsByName[name]) ELSE Undefined

Entry(sc, sb, ec, eb, off, size) ==
    [startChrom |-> sc, startBase |-> sb, endChrom |-> ec, endBase |-> eb,
     blockOffset |-> off, blockSize |-> size]
LeafNode(es) == [isLeaf |-> 1, entries |-> es]
InternalNode(es) == [isLeaf |-> 0, entries |-> es]

RootOffset == cirTreeOffset + 48

\* a leaf root with four data blocks, three on chromosome 0 and one on 1
TreeLeafRoot ==
    RootOffset :> LeafNode(<<Entry(0, 0, 0, 4, 1000, 200), Entry(0, 5, 0, 7, 1300, 100),
                             Entry(0, 8, 0, 9, 10000, 50), Entry(1, 0, 1, 9, 20000, 50)>>)
\* an internal root with one child per chromosome
TreeTwoChroms ==
    (RootOffset :> InternalNode(<<Entry(0, 0, 0, 9, 200, 0), Entry(1, 0, 1, 9, 400, 0)>>))
    @@ (200 :> LeafNode(<<Entry(0, 0, 0, 9, 1000, 200)>>))
    @@ (400 :> LeafNode(<<Entry(1, 0, 1, 9, 5000, 50)>>))
\* an internal root with two children on chromosome 0
TreeSiblings ==
    (RootOffset :> InternalNode(<<Entry(0, 0, 0, 4, 200, 0), Entry(0, 5, 0, 9, 400, 0)>>))
    @@ (200 :> LeafNode(<<Entry(0, 0, 0, 4, 1000, 200)>>))
    @@ (400 :> LeafNode(<<Entry(0, 5, 0, 9, 1300, 100)>>))
\* an index without data
TreeEmpty == RootOffset :> LeafNode(<<>>)

\* the bytes a node occupies: a 4-byte head and 32 bytes per leaf entry or 24
\* per internal entry
NodeBytes(node) == 4 + Len(node.entries) * (IF node.isLeaf = 1 THEN 32 ELSE 24)

\* an internal root with one child per chromosome, the nodes laid out back to
\* back: the root at 48..99, child A at 100..167, child B at 168..203
TreePacked ==
    (RootOffset :> InternalNode(<<Entry(0, 0, 0, 9, 100, 0), Entry(1, 0, 1, 9, 168, 0)>>))
    @@ (100 :> LeafNode(<<Entry(0, 0, 0, 4, 1000, 200), Entry(0, 5, 0, 9, 1300, 100)>>))
    @@ (168 :> LeafNode(<<Entry(1, 0, 1, 9, 5000, 50)>>))

Trees == {TreeLeafRoot, TreeTwoChroms, TreeSiblings, TreeEmpty, TreePacked}

MaxQueries == 2
Queries == 1..MaxQueries
QueryRanges == {<<0, 2>>, <<3, 9>>}

(***************************************************************************)
(* The traversal closures of readWigData.  The synchronous code between    *)
(* two awaits is evaluated on a context record:                            *)
(*   outstanding, blocks   the closure variables                           *)
(*   fetches               cirFobStartFetch calls started (each up to its  *)
(*                         await of featureCache.get)                      *)
(*   rf                    the block lists readFeatures was invoked with   *)
(*   thrown                an exception is propagating                     *)
(***************************************************************************)
CacheKeyPerRequest(req, length, offset) == <<length, offset, req.start>>
\* the string key length + '_' + offset of a cached range
CacheKey(req, length, offset) == <<length, offset>>

filterFeatsChromOnly(b, req) ==
    IsNum(req.chrId) /\ b.startChrom <= req.chrId[1] /\ b.endChrom >= req.chrId[1]

\* a filter that drops an entry ending exactly at the request's start
filterFeatsStrict(b, req) ==
    LET chrId == req.chrId
    IN  /\ \/ IsNum(chrId) /\ b.startChrom < chrId[1]
           \/ chrId = Num(b.startChrom) /\ b.startBase <= req.end
        /\ \/ IsNum(chrId) /\ b.endChrom > chrId[1]
           \/ chrId = Num(b.endChrom) /\ b.endBase > req.start

filterFeats(b, req) ==
    LET chrId == req.chrId
    IN  /\ \/ IsNum(chrId) /\ b.startChrom < chrId[1]
           \/ chrId = Num(b.startChrom) /\ b.startBase <= req.end
        /\ \/ IsNum(chrId) /\ b.endChrom > chrId[1]
           \/ chrId = Num(b.endChrom) /\ b.endBase >= req.start

maxCirBlockSpan == 4 + cirBlockSize * 32

\* the loop of cirFobRecur that unions the spans of offset[2..]
RECURSIVE UnionSpans(_, _, _)
UnionSpans(spans, offset, i) ==
    IF i > Len(offset) THEN [ok |-> TRUE, val |-> spans]
    ELSE LET u == Range_union(spans, RangeNew(offset[i], offset[i] + maxCirBlockSpan))
         IN  IF u.ok THEN UnionSpans(u.val, offset, i + 1) ELSE u

\* the part of cirFobStartFetch before its await
\* a fetch that reads the entries of a node without the 4 bytes of its header
StartFetchShort(req, offset, fr, level) ==
    LET length == Range_max(fr) - Range_min(fr) - 4
    IN  [off |-> offset, fr |-> fr, level |-> level,
         length |-> Num(length), offset |-> Num(Range_min(fr)),
         key |-> CacheKey(req, Num(length), Num(Range_min(fr)))]

StartFetch(req, offset, fr, level) ==
    LET length == Range_max(fr) - Range_min(fr)
    IN  [off |-> offset, fr |-> fr, level |-> level,
         length |-> Num(length), offset |-> Num(Range_min(fr)),
         key |-> CacheKey(req, Num(length), Num(Range_min(fr)))]

cirFobRecur(ctx, req, offset, level) ==
    LET c1 == [ctx EXCEPT !.outstanding = @ + Len(offset)]
        spans == UnionSpans(RangeNew(offset[1], offset[1] + maxCirBlockSpan), offset, 2)
        frs == Range_getRanges(spans.val)
    IN  IF ~spans.ok THEN [c1 EXCEPT !.thrown = TRUE]
        ELSE [c1 EXCEPT !.fetches =
                  @ \cup {StartFetch(req, offset, frs[r], level) : r \in 1..Len(frs)}]

SeqMap(Op(_), s) == [i \in 1..Len(s) |-> Op(s[i])]

cirFobRecur2(ctx, req, node, level) ==
    LET Passes(b) == filterFeats(b, req)
        ToBlock(l) == LengthBlock(l.blockOffset, l.blockSize)
        ToOffset(l) == l.blockOffset
        passing == SelectSeq(node.entries, Passes)
    IN  IF node.isLeaf = 1
        THEN [ctx EXCEPT !.blocks = @ \o SeqMap(ToBlock, passing)]
        ELSE IF Len(passing) > 0
             THEN cirFobRecur(ctx, req, SeqMap(ToOffset, passing), level + 1)
             ELSE ctx

\* the part of cirFobStartFetch after its await, for fetch f of a query on a
\* file whose index nodes are `nodes`
RECURSIVE FetchLoopOn(_, _, _, _, _)
FetchLoopOn(nodes, ctx, req, f, i) ==
    IF i > Len(f.off)
    THEN IF ctx.outstanding # 0
         THEN [ctx EXCEPT !.thrown = TRUE, !.incomplete = TRUE] ELSE ctx
    ELSE IF ~Range_contains(f.fr, f.off[i]) THEN FetchLoopOn(nodes, ctx, req, f, i + 1)
    ELSE LET c1 == cirFobRecur2(ctx, req, nodes[f.off[i]], f.level)
             c2 == [c1 EXCEPT !.outstanding = @ - 1]
             c3 == IF c2.outstanding = 0 THEN [c2 EXCEPT !.rf = Append(@, c2.blocks)] ELSE c2
         IN  IF c1.thrown THEN c1 ELSE FetchLoopOn(nodes, c3, req, f, i + 1)

\* the same on the file the view was opened on
FetchLoop(ctx, req, f, i) == FetchLoopOn(tree, ctx, req, f, i)

\* a counter kept on the view and shared by its queries
ContextShared(q) ==
    [outstanding |-> outstanding[q] + Cardinality({p \in DOMAIN pc : p # q /\ outstanding[p] > 0}),
     blocks |-> blocksToFetch[q],
     fetches |-> {}, rf |-> <<>>, thrown |-> FALSE, incomplete |-> FALSE]
\* the closure variables of one readWigData call: outstanding, blocksToFetch
Context(q) == [outstanding |-> outstanding[q], blocks |-> blocksToFetch[q],
               fetches |-> {}, rf |-> <<>>, thrown |-> FALSE, incomplete |-> FALSE]

\* the group fetches readFeatures starts for one block list: per group the
\* (offset, length) it destructures from the group and the cache key
GroupFetches(req, blocks) ==
    LET groups == groupBlocks(blocks)
    IN  [k \in 1..Len(groups) |->
            [group |-> groups[k], offset |-> Num(groups[k].offset),
             length |-> groups[k].length,
             key |-> CacheKey(req, groups[k].length, Num(groups[k].offset))]]

\* fill: Buffer.alloc(length) throws unless length is a number
FillThrows(length) == ~IsNum(length)

ResidentKeys == {e.key : e \in cacheResident}

\* featureCache.get for a set of requests {key, offset, length}: a resident key
\* resolves, a pending key is shared, any other key is filled by one bbi.read
GetStatus(g) ==
    IF g.key \in ResidentKeys THEN "ready"
    ELSE IF g.key \in cacheInflight THEN "waiting"
    ELSE IF FillThrows(g.length) THEN "failed" ELSE "waiting"

CacheGets(gets) ==
    LET filled == {g \in gets : g.key \notin ResidentKeys \cup cacheInflight
                                /\ ~FillThrows(g.length)}
    IN  /\ cacheInflight' = cacheInflight \cup {g.key : g \in filled}
        /\ reads' = reads \cup {[key |-> g.key, offset |-> g.offset, length |-> g.length] :
                                    g \in filled}
        /\ UNCHANGED cacheResident

Inc(f, q, n) == [f EXCEPT ![q] = @ + n]

\* the state after a synchronous stretch of query q that ended in context ctx;
\* `resumed` holds the fetch whose await the stretch resumed from, if any
ApplyContext(q, ctx, resumed) ==
    LET gf == IF ctx.rf = <<>> THEN <<>> ELSE GroupFetches(request[q], ctx.rf[1])
        WithStatus(g) == g @@ [status |-> GetStatus(g)]
    IN  /\ outstanding' = [outstanding EXCEPT ![q] = ctx.outstanding]
        /\ blocksToFetch' = [blocksToFetch EXCEPT ![q] = ctx.blocks]
        /\ thrown' = Inc(thrown, q, IF ctx.thrown THEN 1 ELSE 0)
        /\ incompletes' = Inc(incompletes, q, IF ctx.incomplete THEN 1 ELSE 0)
        /\ rfCalls' = Inc(rfCalls, q, Len(ctx.rf))
        /\ IF ctx.rf = <<>>
           THEN UNCHANGED <<groupGets, rfState>>
           ELSE /\ groupGets' = [groupGets EXCEPT ![q] = SeqMap(WithStatus, gf)]
                /\ rfState' = [rfState EXCEPT ![q] = "pending"]
        /\ CacheGets(ctx.fetches \cup {gf[k] : k \in 1..Len(gf)})
        /\ nodeFetches' = [nodeFetches EXCEPT ![q] =
                              (@ \ resumed) \cup {WithStatus(f) : f \in ctx.fetches}]

DecodeIdle ==
    /\ dType = "summary"
    /\ dEntry = Entry(0, 0, 0, 0, 0, 0)
    /\ dBuffer = <<>>
    /\ dOffset = 0
    /\ dRequest = [chrId |-> Undefined, start |-> 0, end |-> 0]
    /\ dBatch = <<>>
    /\ dEmitted = FALSE
    /\ dBy = ""
    /\ dPruned = FALSE

FeatIdle ==
    /\ fType = "summary"
    /\ fGroups = <<>>
    /\ fState = <<>>
    /\ fIndex = <<>>
    /\ fNexts = 0
    /\ fCompletes = 0
    /\ fRejected = FALSE
    /\ fAborted = FALSE

RangeIdle ==
    /\ rA = <<>>
    /\ rB = <<>>
    /\ rC = <<>>
    /\ rOp = ""
    /\ rOut = <<>>

ViewIdle ==
    /\ argOffset = <<>>
    /\ argLength = <<>>
    /\ viewState = ""
    /\ viewError = ""
    /\ viewReads = 0

BlocksIdle ==
    /\ bType = "summary"
    /\ bCompressed = FALSE
    /\ bBlocks = <<>>
    /\ bRequest = [chrId |-> <<>>, start |-> 0, end |-> 0]
    /\ bIndex = 0
    /\ bBatches = <<>>
    /\ bThrown = FALSE
    /\ bCompletes = 0

RoundIdle ==
    /\ oVersion = ""
    /\ oOffsets = <<>>
    /\ oOutstanding = 0
    /\ oBefore = 0
    /\ oBlocks = <<>>
    /\ oReads = {}
    /\ oThrown = FALSE
    /\ oDone = FALSE

GroupIdle ==
    /\ gInput = <<>>
    /\ gResult = <<>>
    /\ gDone = FALSE

(***************************************************************************)
(* Spec: the query engine.                                                 *)
(***************************************************************************)
EngineIdle ==
    /\ tree = TreeEmpty
    /\ cirTreePromise = FALSE
    /\ pc = [q \in Queries |-> "idle"]
    /\ request = [q \in Queries |-> [chrId |-> Undefined, start |-> 0, end |-> 0]]
    /\ outstanding = [q \in Queries |-> 0]
    /\ blocksToFetch = [q \in Queries |-> <<>>]
    /\ nodeFetches = [q \in Queries |-> {}]
    /\ rfCalls = [q \in Queries |-> 0]
    /\ groupGets = [q \in Queries |-> <<>>]
    /\ rfState = [q \in Queries |-> "none"]
    /\ cacheInflight = {}
    /\ cacheResident = {}
    /\ reads = {}
    /\ headerReads = 0
    /\ nexts = [q \in Queries |-> 0]
    /\ completes = [q \in Queries |-> 0]
    /\ errors = [q \in Queries |-> 0]
    /\ thrown = [q \in Queries |-> 0]
    /\ incompletes = [q \in Queries |-> 0]
    /\ chrName = [q \in Queries |-> ""]

\* readWigData up to its first await: the lookup of chrId, complete() for an
\* unknown name (the code does not return there), and either the await of a
\* memoized cirTreePromise or a header read of its own
StartQuery(q, name, range) ==
    /\ pc[q] = "idle"
    /\ chrName' = [chrName EXCEPT ![q] = name]
    /\ request' = [request EXCEPT ![q] =
                      [chrId |-> ChrIdOf(name), start |-> range[1], end |-> range[2]]]
    /\ completes' = Inc(completes, q, IF ChrIdOf(name) = Undefined THEN 1 ELSE 0)
    /\ IF cirTreePromise
       THEN /\ pc' = [pc EXCEPT ![q] = "awaitHeader"]
            /\ UNCHANGED headerReads
       ELSE /\ pc' = [pc EXCEPT ![q] = "readHeader"]
            /\ headerReads' = headerReads + 1
    /\ UNCHANGED <<viewVars, blockVars, roundVars, incompletes, tree, cirTreePromise, outstanding, blocksToFetch, nodeFetches, rfCalls,
                   groupGets, rfState, cacheInflight, cacheResident, reads, nexts, errors,
                   thrown, groupVars, decodeVars,
                   featVars, rangeVars>>

\* readWigData after the header: cirFobRecur([cirTreeOffset + 48], 1)
BeginTraversal(q) ==
    /\ pc' = [pc EXCEPT ![q] = "returned"]
    /\ ApplyContext(q, cirFobRecur(Context(q), request[q], <<RootOffset>>, 1), {})

\* the query's own header read resolves: cirTreePromise is assigned the result
HeaderRead(q) ==
    /\ pc[q] = "readHeader"
    /\ cirTreePromise' = TRUE
    /\ BeginTraversal(q)
    /\ UNCHANGED <<viewVars, blockVars, roundVars, tree, request, headerReads, nexts, completes, errors, chrName, groupVars, decodeVars,
                   featVars, rangeVars>>

\* the query's own header read fails: readWigData rejects
HeaderReadFails(q) ==
    /\ pc[q] = "readHeader"
    /\ pc' = [pc EXCEPT ![q] = "rejected"]
    /\ thrown' = Inc(thrown, q, 1)
    /\ UNCHANGED <<viewVars, blockVars, roundVars, incompletes, tree, cirTreePromise, request, outstanding, blocksToFetch, nodeFetches,
                   rfCalls, groupGets, rfState, cacheInflight, cacheResident, reads,
                   headerReads, nexts, completes, errors, chrName, groupVars, decodeVars,
                   featVars, rangeVars>>

\* await this.cirTreePromise resumes
HeaderAwaited(q) ==
    /\ pc[q] = "awaitHeader"
    /\ BeginTraversal(q)
    /\ UNCHANGED <<viewVars, blockVars, roundVars, tree, cirTreePromise, request, headerReads, nexts, completes, errors,
                   chrName, groupVars, decodeVars,
                   featVars, rangeVars>>

Settle(gets, key, status) ==
    {IF g.key = key /\ g.status = "waiting" THEN [g EXCEPT !.status = status] ELSE g :
        g \in gets}
SettleSeq(gets, key, status) ==
    [k \in 1..Len(gets) |->
        IF gets[k].key = key /\ gets[k].status = "waiting"
        THEN [gets[k] EXCEPT !.status = status] ELSE gets[k]]

\* a backing read of fill settles: every waiter of the key gets the buffer or
\* the failure; a failed entry leaves the cache
ReadSettles(r, ok) ==
    /\ r \in reads
    /\ reads' = reads \ {r}
    /\ cacheInflight' = cacheInflight \ {r.key}
    /\ cacheResident' = IF ok THEN cacheResident \cup {r} ELSE cacheResident
    /\ LET status == IF ok THEN "ready" ELSE "failed"
       IN  /\ nodeFetches' = [q \in Queries |-> Settle(nodeFetches[q], r.key, status)]
           /\ groupGets' = [q \in Queries |-> SettleSeq(groupGets[q], r.key, status)]
    /\ UNCHANGED <<viewVars, blockVars, roundVars, incompletes, tree, cirTreePromise, pc, request, outstanding, blocksToFetch, rfCalls,
                   rfState, headerReads, nexts, completes, errors, thrown, chrName, groupVars,
                   decodeVars,
                   featVars, rangeVars>>

\* cirFobStartFetch resumes with the buffer of its range
NodeFetched(q, f) ==
    /\ f \in nodeFetches[q]
    /\ f.status = "ready"
    /\ ApplyContext(q, FetchLoop(Context(q), request[q], f, 1), {f})
    /\ UNCHANGED <<viewVars, blockVars, roundVars, tree, cirTreePromise, pc, request, headerReads, nexts, completes, errors,
                   chrName, groupVars, decodeVars,
                   featVars, rangeVars>>

\* featureCache.get of a node range rejects: cirFobStartFetch rejects
NodeFetchFails(q, f) ==
    /\ f \in nodeFetches[q]
    /\ f.status = "failed"
    /\ nodeFetches' = [nodeFetches EXCEPT ![q] = @ \ {f}]
    /\ thrown' = Inc(thrown, q, 1)
    /\ UNCHANGED <<viewVars, blockVars, roundVars, incompletes, tree, cirTreePromise, pc, request, outstanding, blocksToFetch, rfCalls,
                   groupGets, rfState, cacheInflight, cacheResident, reads, headerReads,
                   nexts, completes, errors, chrName, groupVars, decodeVars,
                   featVars, rangeVars>>

\* the callback of one block group in readFeatures resumes: with the buffer it
\* calls observer.next once per block of the group; with a rejection it
\* rejects, and with it Promise.all and readFeatures
GroupSettled(q, k) ==
    /\ k \in 1..Len(groupGets[q])
    /\ groupGets[q][k].status \in {"ready", "failed"}
    /\ IF groupGets[q][k].status = "ready"
       THEN /\ nexts' = Inc(nexts, q, Len(groupGets[q][k].group.blocks))
            /\ groupGets' = [groupGets EXCEPT ![q][k].status = "done"]
            /\ UNCHANGED <<thrown, rfState>>
       ELSE /\ thrown' = Inc(thrown, q, 1)
            /\ groupGets' = [groupGets EXCEPT ![q][k].status = "rejected"]
            /\ rfState' = [rfState EXCEPT ![q] = "rejected"]
            /\ UNCHANGED nexts
    /\ UNCHANGED <<viewVars, blockVars, roundVars, incompletes, tree, cirTreePromise, pc, request, outstanding, blocksToFetch, nodeFetches,
                   rfCalls, cacheInflight, cacheResident, reads, headerReads, completes,
                   errors, chrName, groupVars, decodeVars,
                   featVars, rangeVars>>

\* Promise.all of readFeatures fulfils: observer.complete()
FeaturesComplete(q) ==
    /\ rfState[q] = "pending"
    /\ \A k \in 1..Len(groupGets[q]) : groupGets[q][k].status = "done"
    /\ rfState' = [rfState EXCEPT ![q] = "completed"]
    /\ completes' = Inc(completes, q, 1)
    /\ UNCHANGED <<viewVars, blockVars, roundVars, incompletes, tree, cirTreePromise, pc, request, outstanding, blocksToFetch, nodeFetches,
                   rfCalls, groupGets, cacheInflight, cacheResident, reads, headerReads,
                   nexts, errors, thrown, chrName, groupVars, decodeVars,
                   featVars, rangeVars>>

Init ==
    /\ GroupIdle
    /\ DecodeIdle
    /\ FeatIdle
    /\ RangeIdle
    /\ ViewIdle
    /\ BlocksIdle
    /\ RoundIdle
    /\ tree \in Trees
    /\ cirTreePromise = FALSE
    /\ pc = [q \in Queries |-> "idle"]
    /\ request = [q \in Queries |-> [chrId |-> Undefined, start |-> 0, end |-> 0]]
    /\ outstanding = [q \in Queries |-> 0]
    /\ blocksToFetch = [q \in Queries |-> <<>>]
    /\ nodeFetches = [q \in Queries |-> {}]
    /\ rfCalls = [q \in Queries |-> 0]
    /\ groupGets = [q \in Queries |-> <<>>]
    /\ rfState = [q \in Queries |-> "none"]
    /\ cacheInflight = {}
    /\ cacheResident = {}
    /\ reads = {}
    /\ headerReads = 0
    /\ nexts = [q \in Queries |-> 0]
    /\ completes = [q \in Queries |-> 0]
    /\ errors = [q \in Queries |-> 0]
    /\ thrown = [q \in Queries |-> 0]
    /\ incompletes = [q \in Queries |-> 0]
    /\ chrName = [q \in Queries |-> ""]

Next ==
    \/ \E q \in Queries, name \in RefNames, range \in QueryRanges : StartQuery(q, name, range)
    \/ \E q \in Queries : HeaderRead(q)
    \/ \E q \in Queries : HeaderReadFails(q)
    \/ \E q \in Queries : HeaderAwaited(q)
    \/ \E r \in reads, ok \in BOOLEAN : ReadSettles(r, ok)
    \/ \E q \in Queries : \E f \in nodeFetches[q] : NodeFetched(q, f)
    \/ \E q \in Queries : \E f \in nodeFetches[q] : NodeFetchFails(q, f)
    \/ \E q \in Queries : \E k \in 1..Len(groupGets[q]) : GroupSettled(q, k)
    \/ \E q \in Queries : FeaturesComplete(q)

Spec == Init /\ [][Next]_vars

\* the steps of a run in which every backing read succeeds
NextOk ==
    \/ \E q \in Queries, name \in RefNames, range \in QueryRanges : StartQuery(q, name, range)
    \/ \E q \in Queries : HeaderRead(q)
    \/ \E q \in Queries : HeaderAwaited(q)
    \/ \E r \in reads : ReadSettles(r, TRUE)
    \/ \E q \in Queries : \E f \in nodeFetches[q] : NodeFetched(q, f)
    \/ \E q \in Queries : \E k \in 1..Len(groupGets[q]) : GroupSettled(q, k)
    \/ \E q \in Queries : FeaturesComplete(q)

SpecReadsOk == Init /\ [][NextOk]_vars

(***************************************************************************)
(* The block decoders of BlockView.  A buffer is the list of the records   *)
(* laid out in it from byte 0; a decoder is handed a buffer and the byte   *)
(* offset to start at (readFeatures: offset 0 of the inflated block, or    *)
(* the block's offset inside the group's buffer).  A decoded feature       *)
(* carries the chromId of the record it came from.                         *)
(***************************************************************************)
BIG_WIG_TYPE_GRAPH == 1
BIG_WIG_TYPE_VSTEP == 2
BIG_WIG_TYPE_FSTEP == 3

SummaryRecordBytes == 32
WigHeaderBytes == 24

\* the bytes one record of a buffer of the given block type occupies
RecordBytes(type, rec) ==
    IF type = "summary" THEN SummaryRecordBytes
    ELSE IF type = "bigbed" THEN 12 + Len(rec.rest) + 1
    ELSE WigHeaderBytes + Len(rec.items) *
            (IF rec.blockType = BIG_WIG_TYPE_FSTEP THEN 4
             ELSE IF rec.blockType = BIG_WIG_TYPE_VSTEP THEN 8 ELSE 12)

RECURSIVE BytesBefore(_, _, _)
BytesBefore(type, buffer, i) ==
    IF i <= 1 THEN 0
    ELSE BytesBefore(type, buffer, i - 1) + RecordBytes(type, buffer[i - 1])

byteLength(type, buffer) == BytesBefore(type, buffer, Len(buffer) + 1)

\* the index of the record that starts at byte offset `at`
RecordAt(type, buffer, at) ==
    CHOOSE i \in 1..Len(buffer) : BytesBefore(type, buffer, i) = at

coordFilterLoose(f, range) == f.start <= range.end /\ f.end >= range.start
coordFilter(f, range) == f.start < range.end /\ f.end >= range.start

Feature(chromId, start, end, score, uniqueId, summary) ==
    [chromId |-> chromId, start |-> start, end |-> end, score |-> score,
     uniqueId |-> uniqueId, summary |-> summary]

\* the parse loops of parseSummaryBlock and parseBigBedBlock: the records from
\* byte currOffset to the end of the buffer, each with its byte offset
RECURSIVE ParseRecords(_, _, _)
ParseRecords(type, buffer, currOffset) ==
    IF currOffset < byteLength(type, buffer)
    THEN LET i == RecordAt(type, buffer, currOffset)
         IN  <<[rec |-> buffer[i], at |-> currOffset]>>
             \o ParseRecords(type, buffer, currOffset + RecordBytes(type, buffer[i]))
    ELSE <<>>

parseSummaryBlock(data, startOffset, req) ==
    LET features == ParseRecords("summary", data, startOffset)
        SameChrom(p) == Num(p.rec.chromId) = req.chrId
        ToFeature(p) ==
            Feature(p.rec.chromId, p.rec.start, p.rec.end,
                    <<p.rec.sumData, IF p.rec.validCnt # 0 THEN p.rec.validCnt ELSE 1>>,
                    Undefined, TRUE)
        Overlaps(f) == coordFilter(f, req)
    IN  SelectSeq(SeqMap(ToFeature, SelectSeq(features, SameChrom)), Overlaps)

parseBigBedBlock(data, startOffset, req) ==
    LET items == ParseRecords("bigbed", data, startOffset)
        ToFeature(p) ==
            Feature(p.rec.chromId, p.rec.start, p.rec.end, <<0, 1>>,
                    Num(startOffset + p.at), FALSE)
        Overlaps(f) == coordFilter(f, req)
    IN  SelectSeq(SeqMap(ToFeature, items), Overlaps)

parseBigWigBlock(bytes, startOffset, req) ==
    LET results == bytes[RecordAt("bigwig", bytes, startOffset)]
        step == results.itemStep
        span == results.itemSpan
        Item(i) ==
            LET it == results.items[i]
            IN  IF results.blockType = BIG_WIG_TYPE_FSTEP
                THEN Feature(results.chromId, (i - 1) * step, (i - 1) * step + span,
                             <<it.score, 1>>, Undefined, FALSE)
                ELSE IF results.blockType = BIG_WIG_TYPE_VSTEP
                THEN Feature(results.chromId, it.start, it.start + span,
                             <<it.score, 1>>, Undefined, FALSE)
                ELSE Feature(results.chromId, it.start, it.end, <<it.score, 1>>,
                             Undefined, FALSE)
        Overlaps(f) == coordFilter(f, req)
    IN  SelectSeq([i \in 1..Len(results.items) |-> Item(i)], Overlaps)

(***************************************************************************)
(* The block decoders of RequestWorker (requestWorker.ts), the worker the  *)
(* Window class runs its queries with.  Its request is (chrId, min, max).  *)
(***************************************************************************)
\* sumData / validCnt || 1 as a fraction <<numerator, denominator>>: a quotient
\* of 0 or NaN (0 / 0) is falsy and yields 1; x / 0 is an infinity
RequestWorker_score(sumData, validCnt) ==
    IF sumData = 0 THEN <<1, 1>>
    ELSE IF validCnt = 0 THEN <<sumData, 0>>
    ELSE <<sumData, validCnt>>

\* f.start < this.max && f.end >= this.min, f.end possibly undefined
RequestWorker_coordFilter(f, req) ==
    f.start < req.end /\ IsNum(f.end) /\ f.end[1] >= req.start

\* a feature that passed the filter, its end a number
Emitted(f) == [f EXCEPT !.end = f.end[1]]

\* the records parsed by an array of length data.byteLength / 64 over 32-byte
\* records: the parser's loop runs ceil(length) times
RequestWorker_summaryCount(type, data, startOffset) ==
    ((byteLength(type, data) - startOffset) + 63) \div 64

RequestWorker_parseSummaryBlock(bytes, startOffset, req) ==
    LET first == RecordAt("summary", bytes, startOffset)
        count == RequestWorker_summaryCount("summary", bytes, startOffset)
        summary == SubSeq(bytes, first, first + count - 1)
        SameChrom(elt) == Num(elt.chromId) = req.chrId
        ToFeature(elt) ==
            Feature(elt.chromId, elt.start, Num(elt.end),
                    RequestWorker_score(elt.sumData, elt.validCnt), Undefined, TRUE)
        Overlaps(f) == RequestWorker_coordFilter(f, req)
    IN  SeqMap(Emitted, SelectSeq(SeqMap(ToFeature, SelectSeq(summary, SameChrom)), Overlaps))

RequestWorker_parseBigBedBlock(bytes, startOffset, req) ==
    LET items == ParseRecords("bigbed", bytes, startOffset)
        ToFeature(p) ==
            Feature(p.rec.chromId, p.rec.start, Num(p.rec.end), <<0, 1>>, Undefined, FALSE)
        Overlaps(f) == RequestWorker_coordFilter(f, req)
    IN  SeqMap(Emitted, SelectSeq(SeqMap(ToFeature, items), Overlaps))

RequestWorker_parseBigWigBlock(bytes, startOffset, req) ==
    LET results == bytes[RecordAt("bigwig", bytes, startOffset)]
        step == results.itemStep
        n == Len(results.items)
        Item(i) ==
            LET it == results.items[i]
            IN  IF results.blockType = BIG_WIG_TYPE_FSTEP
                THEN Feature(results.chromId, (i - 1) * step, Num((i - 1) * step + step),
                             <<it.score, 1>>, Undefined, FALSE)
                ELSE IF results.blockType = BIG_WIG_TYPE_VSTEP
                THEN Feature(results.chromId, it.start,
                             IF i < n THEN Num(results.items[i + 1].start - 1) ELSE Undefined,
                             <<it.score, 1>>, Undefined, FALSE)
                ELSE Feature(results.chromId, it.start, Num(it.end), <<it.score, 1>>,
                             Undefined, FALSE)
        Overlaps(f) == RequestWorker_coordFilter(f, req)
    IN  SeqMap(Emitted, SelectSeq([i \in 1..n |-> Item(i)], Overlaps))

\* the switch of RequestWorker.readFeatures on opts.type
RequestWorker_DecodeBatch(type, data, offset, req) ==
    IF type = "summary" THEN RequestWorker_parseSummaryBlock(data, offset, req)
    ELSE IF type = "bigwig" THEN RequestWorker_parseBigWigBlock(data, offset, req)
    ELSE RequestWorker_parseBigBedBlock(data, offset, req)

\* the switch of readFeatures on blockType
DecodeBatch(type, data, offset, req) ==
    IF type = "summary" THEN parseSummaryBlock(data, offset, req)
    ELSE IF type = "bigwig" THEN parseBigWigBlock(data, offset, req)
    ELSE parseBigBedBlock(data, offset, req)

(***************************************************************************)
(* SpecDecode: the decode step of readFeatures on one block, for a block   *)
(* the traversal reached: its leaf entry passes filterFeats, and the       *)
(* chromosomes of its records lie within the entry's.                      *)
(***************************************************************************)
MaxRecords == 2

SeqsUpTo(S, n) == UNION {[1..k -> S] : k \in 0..n}

BlockTypes == {"summary", "bigwig", "bigbed"}
Intervals == {<<0, 2>>, <<2, 5>>}
DecodeRanges == {<<0, 2>>, <<2, 2>>, <<3, 9>>}
Chroms == {0, 1}

SummaryRecords ==
    {[chromId |-> c, start |-> iv[1], end |-> iv[2], validCnt |-> n, minScore |-> 0,
      maxScore |-> 0, sumData |-> d] :
        c \in Chroms, iv \in Intervals, n \in {0, 2}, d \in {0, 4}}
BedRecords ==
    {[chromId |-> c, start |-> iv[1], end |-> iv[2], rest |-> r] :
        c \in Chroms, iv \in Intervals, r \in {"", "x"}}
WigItems == {[start |-> iv[1], end |-> iv[2], score |-> 1] : iv \in Intervals}
WigBlocks ==
    {[chromId |-> c, blockStart |-> b, itemStep |-> 3, itemSpan |-> 2, blockType |-> t,
      items |-> its] :
        c \in Chroms, b \in {0, 2},
        t \in {BIG_WIG_TYPE_GRAPH, BIG_WIG_TYPE_VSTEP, BIG_WIG_TYPE_FSTEP},
        its \in SeqsUpTo(WigItems, MaxRecords)}

Buffers(type) ==
    IF type = "summary" THEN SeqsUpTo(SummaryRecords, MaxRecords) \ {<<>>}
    ELSE IF type = "bigbed" THEN SeqsUpTo(BedRecords, MaxRecords) \ {<<>>}
    ELSE SeqsUpTo(WigBlocks, 2) \ {<<>>}

LeafEntries ==
    {Entry(0, 0, 0, 9, 0, 0), Entry(1, 0, 1, 9, 0, 0), Entry(0, 5, 1, 3, 0, 0),
     Entry(0, 0, 0, 2, 0, 0), Entry(0, 2, 0, 5, 0, 0)}

DecodeInit ==
    /\ EngineIdle
    /\ GroupIdle
    /\ FeatIdle
    /\ RangeIdle
    /\ ViewIdle
    /\ BlocksIdle
    /\ RoundIdle
    /\ dType \in BlockTypes
    /\ dEntry \in LeafEntries
    /\ dBuffer \in Buffers(dType)
    /\ \A i \in 1..Len(dBuffer) :
          dEntry.startChrom <= dBuffer[i].chromId /\ dBuffer[i].chromId <= dEntry.endChrom
    /\ dOffset \in {BytesBefore(dType, dBuffer, i) : i \in 1..Len(dBuffer)}
    /\ dRequest \in {[chrId |-> Num(c), start |-> r[1], end |-> r[2]] :
                        c \in Chroms, r \in DecodeRanges}
    /\ dBatch = <<>>
    /\ dEmitted = FALSE
    /\ dBy = ""
    /\ dPruned = FALSE

\* one block of a fetched group: observer.next(parse...Block(data, offset, request))
DecodeBlock ==
    /\ ~dEmitted
    /\ filterFeats(dEntry, dRequest)
    /\ dBatch' = DecodeBatch(dType, dBuffer, dOffset, dRequest)
    /\ dEmitted' = TRUE
    /\ dBy' = "BlockView"
    /\ UNCHANGED <<viewVars, blockVars, roundVars, dType, dEntry, dBuffer, dOffset, dRequest, dPruned, engineVars,
                   groupVars,
                   featVars, rangeVars>>

\* the same step in RequestWorker.readFeatures: this.observer.next(this.parse...Block(data, offset))
WorkerDecodeBlock ==
    /\ ~dEmitted
    /\ filterFeats(dEntry, dRequest)
    /\ dBatch' = RequestWorker_DecodeBatch(dType, dBuffer, dOffset, dRequest)
    /\ dEmitted' = TRUE
    /\ dBy' = "RequestWorker"
    /\ UNCHANGED <<viewVars, blockVars, roundVars, dType, dEntry, dBuffer, dOffset, dRequest, dPruned, engineVars,
                   groupVars,
                   featVars, rangeVars>>

\* cirFobRecur2 on the leaf that holds the block's entry: an entry that fails
\* filterFeats is not added to blocksToFetch, and its block is never read
PruneBlock ==
    /\ ~dEmitted
    /\ ~dPruned
    /\ ~filterFeats(dEntry, dRequest)
    /\ dPruned' = TRUE
    /\ UNCHANGED <<viewVars, blockVars, roundVars, dType, dEntry, dBuffer, dOffset, dRequest,
                   dBatch, dEmitted, dBy, engineVars, groupVars, featVars, rangeVars>>

SpecDecode == DecodeInit /\ [][DecodeBlock \/ WorkerDecodeBlock \/ PruneBlock]_vars

(***************************************************************************)
(* SpecBlocks: the forEach of readFeatures over the blocks of one fetched  *)
(* group.  The blocks lie back to back in the file; bBlocks[k] holds the   *)
(* records stored in block k (for bigWig: the one block header with its    *)
(* items).  In an uncompressed file the decoder gets the group's whole     *)
(* buffer and the block's offset in it; in a compressed file it gets the   *)
(* inflated block and offset 0.                                            *)
(***************************************************************************)
MaxBlockRecords == 2
MaxBlocksInGroup == 2

RECURSIVE Concat(_)
Concat(seqs) == IF seqs = <<>> THEN <<>> ELSE Head(seqs) \o Concat(Tail(seqs))

\* a blockType byte that is none of the three known ones
BIG_WIG_TYPE_OTHER == 4

\* bigWigParser has no defaultChoice: for a tag outside its choices the parse
\* throws, and where it did not, results.items would be undefined and
\* items.filter would throw a TypeError; either way the decoder throws
parseBigWigBlockThrows(bytes, startOffset) ==
    bytes[RecordAt("bigwig", bytes, startOffset)].blockType
        \notin {BIG_WIG_TYPE_GRAPH, BIG_WIG_TYPE_VSTEP, BIG_WIG_TYPE_FSTEP}

DecodeThrows(type, data, offset) ==
    type = "bigwig" /\ parseBigWigBlockThrows(data, offset)

\* block.offset - blockGroup.offset for block k
BlockOffsetInGroup(type, blocks, k) == byteLength(type, Concat(SubSeq(blocks, 1, k - 1)))

\* resultData and offset of readFeatures for block k
resultData(type, compressed, blocks, k) == IF compressed THEN blocks[k] ELSE Concat(blocks)
resultOffset(type, compressed, blocks, k) ==
    IF compressed THEN 0 ELSE BlockOffsetInGroup(type, blocks, k)

BlockBedRecords ==
    {[chromId |-> 0, start |-> iv[1], end |-> iv[2], rest |-> r] :
        iv \in Intervals, r \in {"", "x"}}
BlockSummaryRecords ==
    {[chromId |-> 0, start |-> iv[1], end |-> iv[2], validCnt |-> 2, minScore |-> 0,
      maxScore |-> 0, sumData |-> 4] : iv \in Intervals}
BlockWigRecords ==
    {[chromId |-> 0, blockStart |-> 0, itemStep |-> 3, itemSpan |-> 2, blockType |-> t,
      items |-> its] :
        t \in {BIG_WIG_TYPE_GRAPH, BIG_WIG_TYPE_VSTEP, BIG_WIG_TYPE_FSTEP},
        its \in SeqsUpTo(WigItems, 1)}
      \cup {[chromId |-> 0, blockStart |-> 0, itemStep |-> 3, itemSpan |-> 2,
             blockType |-> BIG_WIG_TYPE_OTHER, items |-> <<>>]}

\* what one block of a file of the given type can hold
BlockContents(type) ==
    IF type = "summary" THEN SeqsUpTo(BlockSummaryRecords, MaxBlockRecords) \ {<<>>}
    ELSE IF type = "bigbed" THEN SeqsUpTo(BlockBedRecords, MaxBlockRecords) \ {<<>>}
    ELSE {<<w>> : w \in BlockWigRecords}

BlocksInit ==
    /\ EngineIdle
    /\ GroupIdle
    /\ DecodeIdle
    /\ FeatIdle
    /\ RangeIdle
    /\ ViewIdle
    /\ RoundIdle
    /\ bType \in BlockTypes
    /\ bCompressed \in BOOLEAN
    /\ bBlocks \in SeqsUpTo(BlockContents(bType), MaxBlocksInGroup) \ {<<>>}
    /\ bRequest \in {[chrId |-> Num(0), start |-> r[1], end |-> r[2]] : r \in QueryRanges}
    /\ bIndex = 0
    /\ bBatches = <<>>
    /\ bThrown = FALSE
    /\ bCompletes = 0

\* one call of the forEach callback: the decoder's result goes to
\* observer.next; an exception leaves the forEach and rejects the group's
\* callback, and with it Promise.all
DecodeNextBlock ==
    /\ ~bThrown
    /\ bIndex < Len(bBlocks)
    /\ LET k == bIndex + 1
           data == resultData(bType, bCompressed, bBlocks, k)
           offset == resultOffset(bType, bCompressed, bBlocks, k)
       IN  IF DecodeThrows(bType, data, offset)
           THEN /\ bThrown' = TRUE
                /\ UNCHANGED <<bIndex, bBatches>>
           ELSE /\ bBatches' = Append(bBatches, DecodeBatch(bType, data, offset, bRequest))
                /\ bIndex' = k
                /\ UNCHANGED bThrown
    /\ UNCHANGED <<bType, bCompressed, bBlocks, bRequest, bCompletes, engineVars, groupVars,
                   decodeVars, featVars, rangeVars, viewVars, roundVars>>

\* Promise.all fulfils after the group's forEach has ended: observer.complete()
BlocksComplete ==
    /\ ~bThrown
    /\ bIndex = Len(bBlocks)
    /\ bCompletes = 0
    /\ bCompletes' = 1
    /\ UNCHANGED <<bType, bCompressed, bBlocks, bRequest, bIndex, bBatches, bThrown,
                   engineVars, groupVars, decodeVars, featVars, rangeVars, viewVars, roundVars>>

SpecBlocks == BlocksInit /\ [][DecodeNextBlock \/ BlocksComplete]_vars

(***************************************************************************)
(* SpecRound: one call of RequestWorker.cirFobRecur(offset, level), a      *)
(* public method, on a drawn offset list, the empty list included.  Two    *)
(* versions of the method are in the sources.                              *)
(***************************************************************************)
MaxRoundOffsets == 2
MaxOutstandingBefore == 2
RoundOffsets == {48, 100, 168, 300}
RoundVersions == {"requestWorker.ts", "part_000"}

\* Buffer.alloc(NaN): a RangeError on current Node releases, an empty buffer
\* on those that coerce the size
AllocOutcomes == {"throws", "empty"}

\* what the call does besides outstanding += offset.length: the reads its
\* fetches issue, and whether it throws or one of its fetches rejects
RequestWorker_cirFobRecur(version, offset, alloc) ==
    IF offset = <<>>
    THEN IF version = "part_000"
         \* spans stays undefined: spans.getRanges() is a TypeError
         THEN [reads |-> {}, thrown |-> TRUE]
         \* spans = new Range(undefined, NaN): one fetch whose length is NaN
         ELSE IF alloc = "throws"
              THEN [reads |-> {}, thrown |-> TRUE]
              ELSE [reads |-> {[offset |-> Undefined, length |-> Undefined]},
                    thrown |-> FALSE]
    ELSE LET spans == UnionSpans(RangeNew(offset[1], offset[1] + maxCirBlockSpan), offset, 2)
             frs == Range_getRanges(spans.val)
         IN  IF ~spans.ok THEN [reads |-> {}, thrown |-> TRUE]
             ELSE [reads |-> {[offset |-> Num(Range_min(frs[r])),
                               length |-> Num(Range_max(frs[r]) - Range_min(frs[r]))] :
                                  r \in 1..Len(frs)},
                   thrown |-> FALSE]

RoundInit ==
    /\ EngineIdle
    /\ GroupIdle
    /\ DecodeIdle
    /\ FeatIdle
    /\ RangeIdle
    /\ ViewIdle
    /\ BlocksIdle
    /\ oVersion \in RoundVersions
    /\ oOffsets \in SeqsUpTo(RoundOffsets, MaxRoundOffsets)
    /\ oBefore \in 0..MaxOutstandingBefore
    /\ oOutstanding = oBefore
    /\ oBlocks \in {<<>>, <<SizeBlock(1000, 200)>>}
    /\ oReads = {}
    /\ oThrown = FALSE
    /\ oDone = FALSE

\* cirFobRecur(offset, level), up to the first await of the fetches it starts
CallCirFobRecur ==
    /\ ~oDone
    /\ \E alloc \in AllocOutcomes :
          LET res == RequestWorker_cirFobRecur(oVersion, oOffsets, alloc)
          IN  /\ oReads' = res.reads
              /\ oThrown' = res.thrown
    /\ oOutstanding' = oOutstanding + Len(oOffsets)
    /\ oDone' = TRUE
    /\ UNCHANGED <<oVersion, oOffsets, oBefore, oBlocks, engineVars, groupVars, decodeVars,
                   featVars, rangeVars, viewVars, blockVars>>

SpecRound == RoundInit /\ [][CallCirFobRecur]_vars

(***************************************************************************)
(* SpecFeatures: readFeatures from the point where its group fetches have  *)
(* been issued, as a function of what the fetches deliver.  Each group's   *)
(* callback either resumes with the group's buffer and runs its forEach    *)
(* (one block per step: the observer's handler runs inside next() and may  *)
(* fire the abort signal there), or resumes with a rejection.  What a      *)
(* block decodes to is SpecDecode's matter.                                *)
(***************************************************************************)
MaxGroups == 2
MaxGroupBlocks == 2

FeatureGroups == SeqsUpTo(1..MaxGroupBlocks, MaxGroups)
FeatureTypes == BlockTypes \cup {"other"}

NextCallsSummaryOnly(type) == IF type = "summary" THEN 1 ELSE 0
\* the switch on blockType: one observer.next per block for the three known
\* types, a console.warn otherwise
NextCalls(type) == IF type \in BlockTypes THEN 1 ELSE 0

AnyFulfilled == \E g \in 1..Len(fGroups) : fState[g] = "done"
\* Promise.all fulfils once every group's callback has
AllFulfilled == \A g \in 1..Len(fGroups) : fState[g] = "done"

\* callbacks run one at a time
NoneRunning == \A g \in 1..Len(fGroups) : fState[g] # "running"

\* the cache does not hand a buffer to a waiter whose signal has fired
GetResolves == ~fAborted

FeatInit ==
    /\ EngineIdle
    /\ GroupIdle
    /\ DecodeIdle
    /\ RangeIdle
    /\ ViewIdle
    /\ BlocksIdle
    /\ RoundIdle
    /\ fType \in FeatureTypes
    /\ fGroups \in FeatureGroups
    /\ fState = [g \in 1..Len(fGroups) |-> "pending"]
    /\ fIndex = [g \in 1..Len(fGroups) |-> 0]
    /\ fNexts = 0
    /\ fCompletes = 0
    /\ fRejected = FALSE
    /\ fAborted = FALSE

\* await featureCache.get(...) of group g resumes with the buffer
GroupResolved(g) ==
    /\ fState[g] = "pending"
    /\ NoneRunning
    /\ GetResolves
    /\ fState' = [fState EXCEPT ![g] = "running"]
    /\ UNCHANGED <<viewVars, blockVars, roundVars, fType, fGroups, fIndex, fNexts, fCompletes, fRejected, fAborted,
                   engineVars, groupVars, decodeVars, rangeVars>>

\* one iteration of blockGroup.blocks.forEach of group g
NextBlock(g) ==
    /\ fState[g] = "running"
    /\ fIndex' = [fIndex EXCEPT ![g] = @ + 1]
    /\ fNexts' = fNexts + NextCalls(fType)
    /\ fState' = [fState EXCEPT ![g] = IF fIndex[g] + 1 = fGroups[g] THEN "done" ELSE @]
    /\ UNCHANGED <<viewVars, blockVars, roundVars, fType, fGroups, fCompletes, fRejected, fAborted,
                   engineVars, groupVars, decodeVars, rangeVars>>

\* await featureCache.get(...) of group g resumes with a rejection: the
\* callback rejects, and with it Promise.all and readFeatures
GroupRejected(g) ==
    /\ fState[g] = "pending"
    /\ NoneRunning
    /\ fState' = [fState EXCEPT ![g] = "rejected"]
    /\ fRejected' = TRUE
    /\ UNCHANGED <<viewVars, blockVars, roundVars, fType, fGroups, fIndex, fNexts, fCompletes, fAborted,
                   engineVars, groupVars, decodeVars, rangeVars>>

\* await Promise.all(...) resumes: observer.complete(), and readFeatures ends
AllGroupsDone ==
    /\ fCompletes = 0
    /\ AllFulfilled
    /\ fCompletes' = 1
    /\ UNCHANGED <<viewVars, blockVars, roundVars, fType, fGroups, fState, fIndex, fNexts, fRejected, fAborted,
                   engineVars, groupVars, decodeVars, rangeVars>>

\* opts.signal fires, from the observer's handler or from elsewhere
AbortFires ==
    /\ ~fAborted
    /\ fAborted' = TRUE
    /\ UNCHANGED <<viewVars, blockVars, roundVars, fType, fGroups, fState, fIndex, fNexts, fCompletes, fRejected,
                   engineVars, groupVars, decodeVars, rangeVars>>

FeatNext ==
    \/ \E g \in 1..Len(fGroups) : GroupResolved(g)
    \/ \E g \in 1..Len(fGroups) : NextBlock(g)
    \/ \E g \in 1..Len(fGroups) : GroupRejected(g)
    \/ AllGroupsDone
    \/ AbortFires

SpecFeatures == FeatInit /\ [][FeatNext]_vars

(***************************************************************************)
(* SpecRange: Range.union and Range.intersection applied to range sets     *)
(* over the positions 0..RangeMax: sorted lists of intervals of which      *)
(* consecutive ones are neither overlapping nor touching.                  *)
(***************************************************************************)
RangeMax == 3
MaxIntervals == 3

RangeIntervals == {[min |-> a, max |-> b] : a \in 0..RangeMax, b \in 0..RangeMax}
Separated(r) == \A i \in 1..(Len(r) - 1) : r[i].max + 1 < r[i + 1].min
RangeSets ==
    {r \in SeqsUpTo(RangeIntervals, MaxIntervals) \ {<<>>} :
        (\A i \in 1..Len(r) : r[i].min <= r[i].max) /\ Separated(r)}

RangeInit ==
    /\ EngineIdle
    /\ GroupIdle
    /\ DecodeIdle
    /\ FeatIdle
    /\ ViewIdle
    /\ BlocksIdle
    /\ RoundIdle
    /\ rA \in RangeSets
    /\ rB \in RangeSets
    /\ rC \in RangeSets
    /\ rOp = ""
    /\ rOut = <<>>

\* rA.union(rB)
ApplyUnion ==
    /\ rOp = ""
    /\ rOp' = "union"
    /\ rOut' = Range_union(rA, rB)
    /\ UNCHANGED <<viewVars, blockVars, roundVars, rA, rB, rC, engineVars, groupVars, decodeVars, featVars>>

\* rA.intersection(rB)
ApplyIntersection ==
    /\ rOp = ""
    /\ rOp' = "intersection"
    /\ rOut' = Range_intersection(rA, rB)
    /\ UNCHANGED <<viewVars, blockVars, roundVars, rA, rB, rC, engineVars, groupVars, decodeVars, featVars>>

\* R.contains(p) for every position p, R being the range set rA as the
\* constructor builds it: new Range(min, max) for one interval, new Range(list)
\* for several
ApplyContains ==
    /\ rOp = ""
    /\ rOp' = "contains"
    /\ rOut' = LET R == IF Len(rA) = 1 THEN RangeOfPair(rA[1].min, rA[1].max)
                        ELSE RangeOfList(rA)
               IN  [p \in 0..RangeMax |-> Range_containsField(R, p)]
    /\ UNCHANGED <<viewVars, blockVars, roundVars, rA, rB, rC, engineVars, groupVars, decodeVars, featVars>>

SpecRange == RangeInit /\ [][ApplyUnion \/ ApplyIntersection \/ ApplyContains]_vars

(***************************************************************************)
(* SpecGroup: groupBlocks applied to every short list of descriptors, in   *)
(* the shape of either caller.                                             *)

(***************************************************************************)
(* SpecConstruct: the BlockView constructor (Window has the same checks).  *)
(* The two numeric arguments are JavaScript numbers that may be missing.   *)
(***************************************************************************)
MaxArg == 5
ArgValues == {Undefined} \cup {Num(n) : n \in (0 - MaxArg)..MaxArg}

\* !(cirTreeOffset >= 0) is false only for a number that is >= 0
ValidOffset(o) == IsNum(o) /\ o[1] >= 0
ValidLengthOrZero(l) == IsNum(l) /\ l[1] >= 0
\* !(cirTreeLength > 0) is false only for a number that is > 0
ValidLength(l) == IsNum(l) /\ l[1] > 0

ConstructInit ==
    /\ argOffset \in ArgValues
    /\ argLength \in ArgValues
    /\ viewState = ""
    /\ viewError = ""
    /\ viewReads = 0
    /\ EngineIdle
    /\ GroupIdle
    /\ DecodeIdle
    /\ FeatIdle
    /\ RangeIdle
    /\ BlocksIdle
    /\ RoundIdle

\* new BlockView(bbi, refsByName, cirTreeOffset, cirTreeLength, ...)
Construct ==
    /\ viewState = ""
    /\ IF ~ValidOffset(argOffset)
       THEN viewState' = "thrown" /\ viewError' = "invalid cirTreeOffset!"
       ELSE IF ~ValidLength(argLength)
       THEN viewState' = "thrown" /\ viewError' = "invalid cirTreeLength!"
       ELSE viewState' = "constructed" /\ viewError' = ""
    /\ UNCHANGED <<blockVars, roundVars, argOffset, argLength, viewReads, engineVars, groupVars, decodeVars,
                   featVars, rangeVars>>

\* the first backing read of a view: the 48-byte header read of readWigData,
\* a method of the constructed object
ViewHeaderRead ==
    /\ viewState = "constructed"
    /\ viewReads = 0
    /\ viewReads' = 1
    /\ UNCHANGED <<blockVars, roundVars, argOffset, argLength, viewState, viewError, engineVars, groupVars,
                   decodeVars, featVars, rangeVars>>

SpecConstruct == ConstructInit /\ [][Construct \/ ViewHeaderRead]_vars

(***************************************************************************)
MaxBlocks == 3

BlockOffsets == {0, 10, 2100, 2101, 2148, 2149}
BlockSizes == {10, 100}

SizeBlocks == {SizeBlock(o, n) : o \in BlockOffsets, n \in BlockSizes}
LengthBlocks == {LengthBlock(o, n) : o \in BlockOffsets, n \in BlockSizes}


GroupInit ==
    /\ EngineIdle
    /\ DecodeIdle
    /\ FeatIdle
    /\ RangeIdle
    /\ ViewIdle
    /\ BlocksIdle
    /\ RoundIdle
    /\ gInput \in SeqsUpTo(SizeBlocks, MaxBlocks) \cup SeqsUpTo(LengthBlocks, MaxBlocks)
    /\ gResult = <<>>
    /\ gDone = FALSE

ApplyGroupBlocks ==
    /\ ~gDone
    /\ gResult' = groupBlocks(gInput)
    /\ gDone' = TRUE
    /\ UNCHANGED <<viewVars, blockVars, roundVars, gInput, engineVars, decodeVars,
                   featVars, rangeVars>>

SpecGroup == GroupInit /\ [][ApplyGroupBlocks]_vars

\* offsets on both sides of the point where (offset | 0) wraps: 2^15 stands for
\* 2^31 and 2^16 for 2^32 (see ToInt32)
WideOffsets == {0, 10, 2^15, 2^16 + 10}
WideBlocks == {SizeBlock(o, n) : o \in WideOffsets, n \in BlockSizes}
                  \cup {LengthBlock(o, n) : o \in WideOffsets, n \in BlockSizes}

WideInit ==
    /\ EngineIdle
    /\ DecodeIdle
    /\ FeatIdle
    /\ RangeIdle
    /\ ViewIdle
    /\ BlocksIdle
    /\ RoundIdle
    /\ gInput \in SeqsUpTo({b \in WideBlocks : IsNum(b.size)}, MaxBlocks)
                     \cup SeqsUpTo({b \in WideBlocks : IsNum(b.length)}, MaxBlocks)
    /\ gResult = <<>>
    /\ gDone = FALSE

SpecGroupWide == WideInit /\ [][ApplyGroupBlocks]_vars

\* the byte count of a descriptor or group, whichever of the two fields holds it
ByteCount(x) == IF IsNum(x.length) THEN x.length ELSE x.size
SizeOf(x) == x.size

\* the blocks of the returned groups in output order, each with its group's index
RECURSIVE FlattenGroups(_, _)
FlattenGroups(groups, k) ==
    IF k > Len(groups) THEN <<>>
    ELSE [i \in 1..Len(groups[k].blocks) |-> [group |-> k, block |-> groups[k].blocks[i]]]
         \o FlattenGroups(groups, k + 1)

\* C5 (as claimed): every group covers each of its member blocks:
\* g.offset <= b.offset and b.offset + b.length <= g.offset + g.length.
C5_GroupCoversMembers ==
    gDone =>
        \A k \in 1..Len(gResult) : \A i \in 1..Len(gResult[k].blocks) :
            LET g == gResult[k]
                b == g.blocks[i]
            IN  /\ g.offset <= b.offset
                /\ JsLeq(JsAdd(Num(b.offset), ByteCount(b)), JsAdd(Num(g.offset), ByteCount(g)))

\* The gap that decides whether the block at position i of the walk joins the
\* group of the block before it: next.offset - (current.offset + current.count).
\* The current group ends where the block appended last ends (a new group is
\* that block; a merge sets the count to next.offset + next.count -
\* current.offset), so the end is taken from the preceding block.
WalkGap(walk, i, Count(_)) ==
    JsSub(Num(walk[i].block.offset),
          JsAdd(Num(walk[i - 1].block.offset), Count(walk[i - 1].block)))

\* The merge rule with threshold `limit` over the byte count Count: blocks are
\* walked in ascending offset order; a block joins the current group exactly
\* when its gap is at most limit; a group's count spans from its offset to
\* the end of its last block.
MergeRule(limit, Count(_)) ==
    gDone =>
        LET walk == FlattenGroups(gResult, 1)
        IN  /\ \A i \in 2..Len(walk) :
                  /\ walk[i - 1].block.offset <= walk[i].block.offset
                  /\ (walk[i].group = walk[i - 1].group)
                        <=> JsLeq(WalkGap(walk, i, Count), Num(limit))
            /\ \A k \in 1..Len(gResult) :
                  LET g == gResult[k]
                      last == g.blocks[Len(g.blocks)]
                  IN  Count(g) = JsSub(JsAdd(Num(last.offset), Count(last)), Num(g.offset))

InBatch(P(_)) == dEmitted => \A i \in 1..Len(dBatch) : P(dBatch[i])

\* C3: every feature handed to next() overlaps the requested range,
\* f.start < request.end and f.end >= request.start, whatever the block type.
C3_EmittedOverlapRequest ==
    LET Overlapping(f) == f.start < dRequest.end /\ f.end >= dRequest.start
    IN  InBatch(Overlapping)

\* C3 witness: a bigbed block with two records of the requested chromosome,
\* one starting exactly at request.end, decoded to a batch of one feature.
C3_Witness ==
    /\ dEmitted
    /\ dType = "bigbed"
    /\ Len(dBuffer) = 2
    /\ dOffset = 0
    /\ Len(dBatch) = 1
    /\ dBuffer[1].chromId = dBuffer[2].chromId
    /\ Num(dBuffer[1].chromId) = dRequest.chrId
    /\ \E i \in 1..2 : dBuffer[i].start = dRequest.end

\* C4: every feature handed to next() comes from a record of the requested
\* chromosome, also when the leaf entry of its block spans several chromosomes.
C4_EmittedOnRequestChrom ==
    LET OnChrom(f) == Num(f.chromId) = dRequest.chrId
    IN  InBatch(OnChrom)

(***************************************************************************)
(* Claims about the query engine (Spec).                                   *)
(***************************************************************************)
Started(q) == pc[q] # "idle"
UnknownRef(q) == Started(q) /\ chrName[q] \notin DOMAIN RefsByName

\* C1: the observer of a query receives at most one terminal call: the number
\* of complete() calls plus the number of error() calls never exceeds 1.
C1_AtMostOneTerminal == \A q \in Queries : completes[q] + errors[q] <= 1

\* C2: a query whose refName is not a key of refsByName gets complete() from
\* its first step on, never an error(), and never a next(): the traversal
\* collects no block for it and readFeatures fetches no group.
C2_UnknownRefOnlyCompletes ==
    \A q \in Queries :
        UnknownRef(q) =>
            /\ completes[q] >= 1
            /\ errors[q] = 0
            /\ nexts[q] = 0
            /\ blocksToFetch[q] = <<>>
            /\ groupGets[q] = <<>>

\* C2 witness: a query for an unknown refName ran its traversal over a tree
\* with data blocks to the end and readFeatures was called for it.
C2_Witness ==
    \E q \in Queries :
        /\ UnknownRef(q)
        /\ tree = TreeSiblings
        /\ rfCalls[q] = 1
        /\ nodeFetches[q] = {}

\* the span from a group's first block offset to its last block end
DefinedSpan(group) ==
    LET first == group.blocks[1]
        last == group.blocks[Len(group.blocks)]
    IN  JsSub(JsAdd(Num(last.offset), last.length), Num(first.offset))

\* C7: readFeatures requests, per block group, the range (group.offset,
\* group.length) with group.length the span from the first block's offset to
\* the last block's end, and the request is served by the cache or by one
\* backing read; blocks 1000/200, 1300/100, 10000/50 make two groups.
C7_OneReadPerGroup ==
    \A q \in Queries : \A k \in 1..Len(groupGets[q]) :
        LET g == groupGets[q][k]
        IN  /\ g.offset = Num(g.group.blocks[1].offset)
            /\ IsNum(g.length)
            /\ g.length = DefinedSpan(g.group)
            /\ g.status \notin {"failed", "rejected"}
            /\ Len(blocksToFetch[q]) = 3 => Len(groupGets[q]) = 2

SameRange(a, b) == a.offset = b.offset /\ a.length = b.length

\* C8: for one (offset, length) pair at most one backing read is in flight, and
\* none is in flight while the range is resident in the cache, whichever
\* queries asked for it.
C8_OneReadPerRange ==
    /\ \A r1 \in reads : \A r2 \in reads : SameRange(r1, r2) => r1 = r2
    /\ \A r \in reads : \A e \in cacheResident : ~SameRange(r, e)
    /\ \A e1 \in cacheResident : \A e2 \in cacheResident : SameRange(e1, e2) => e1 = e2

\* C8 witness: two queries with different requests wait for the same node
\* range and one backing read is in flight for it.
C8_Witness ==
    \E q1 \in Queries : \E q2 \in Queries \ {q1} :
        \E f1 \in nodeFetches[q1] : \E f2 \in nodeFetches[q2] :
            /\ request[q1] # request[q2]
            /\ SameRange(f1, f2)
            /\ f1.status = "waiting" /\ f2.status = "waiting"
            /\ Cardinality({r \in reads : SameRange(r, f1)}) = 1

\* C9: the 48-byte header read at cirTreeOffset is issued at most once for a
\* BlockView, however many queries start and whenever they start.
C9_HeaderReadOnce == headerReads <= 1

\* C10: a query in which an error was raised (a failed read of the header, of
\* a node range or of a data group, or an exception in its code) has received
\* exactly one error().
C10_ErrorReportedOnce == \A q \in Queries : thrown[q] > 0 => errors[q] = 1

(***************************************************************************)
(* Claims about readFeatures (SpecFeatures).                               *)
(***************************************************************************)
CallbacksStay == fNexts' = fNexts /\ fCompletes' = fCompletes

\* C11: once an error has occurred in a query (the read of one block group
\* failed), the observer receives no further next() and no complete().
C11_NoCallbackAfterError == [][fRejected => CallbacksStay]_vars

\* C12: once the query's abort signal has fired, the observer receives no
\* further callback of any kind.
C12_NoCallbackAfterAbort == [][fAborted => CallbacksStay]_vars

\* C13: complete() is called only after every next() of the query: no step
\* after complete() makes a next() call.
C13_NoNextAfterComplete == [][fCompletes > 0 => fNexts' = fNexts]_vars

\* C13 witness: complete() was called in a query of two groups after three
\* next() calls.
C13_Witness ==
    /\ fCompletes = 1
    /\ Len(fGroups) = 2
    /\ fNexts = 3

RECURSIVE SumSeq(_)
SumSeq(s) == IF s = <<>> THEN 0 ELSE s[1] + SumSeq(Tail(s))

\* C14: in a query that completed, next() was called exactly once per block
\* of every group, for the block types summary, bigwig and bigbed.
C14_OneNextPerBlock ==
    /\ fCompletes = 1 /\ fType \in BlockTypes => fNexts = SumSeq(fGroups)
    /\ \A g \in 1..Len(fGroups) :
          fState[g] = "done" /\ fType \in BlockTypes => fIndex[g] = fGroups[g]
    /\ fType \in BlockTypes => fNexts = SumSeq(fIndex)

\* C14 witness: a bigbed query over a group of two blocks and a group of one
\* block completed after three next() calls.
C14_Witness ==
    /\ fCompletes = 1
    /\ fType = "bigbed"
    /\ fGroups = <<2, 1>>
    /\ fNexts = 3

(***************************************************************************)
(* Claims about the traversal (Spec).                                      *)
(***************************************************************************)
\* (a1, a2) <= (b1, b2) in lexicographic order
LexLeq(a1, a2, b1, b2) == a1 < b1 \/ (a1 = b1 /\ a2 <= b2)

\* the overlaps predicate: the entry's span of (chrom, base) positions meets
\* the requested interval of the requested chromosome
Overlaps(e, req) ==
    /\ IsNum(req.chrId)
    /\ LexLeq(e.startChrom, e.startBase, req.chrId[1], req.end)
    /\ LexLeq(req.chrId[1], req.start, e.endChrom, e.endBase)

\* the descriptors of the leaf entries under node `off` that overlap the
\* request and all of whose ancestor entries overlap it
RECURSIVE OverlapSet(_, _)
OverlapSet(req, off) ==
    LET node == tree[off]
        passing == {i \in 1..Len(node.entries) : Overlaps(node.entries[i], req)}
    IN  IF node.isLeaf = 1
        THEN {[offset |-> node.entries[i].blockOffset, size |-> Undefined,
               length |-> Num(node.entries[i].blockSize)] : i \in passing}
        ELSE UNION {OverlapSet(req, node.entries[i].blockOffset) : i \in passing}

\* the descriptors readFeatures was handed, read off its group fetches
HandedBlocks(q) ==
    UNION {{groupGets[q][k].group.blocks[i] : i \in 1..Len(groupGets[q][k].group.blocks)} :
              k \in 1..Len(groupGets[q])}
HandedCount(q) ==
    SumSeq([k \in 1..Len(groupGets[q]) |-> Len(groupGets[q][k].group.blocks)])

\* C15: when the traversal of a query completes, readFeatures is handed
\* exactly the descriptors {offset, length} of the leaf entries that overlap
\* the request and whose ancestors all overlap it, each once.
C15_HandedExactlyOverlapSet ==
    \A q \in Queries :
        rfCalls[q] > 0 =>
            /\ rfCalls[q] = 1
            /\ HandedBlocks(q) = OverlapSet(request[q], RootOffset)
            /\ HandedCount(q) = Cardinality(OverlapSet(request[q], RootOffset))
            /\ Len(blocksToFetch[q]) = HandedCount(q)

\* C15 witness: a traversal through an internal root ended with one descriptor
\* of a leaf that holds two entries.
C15_Witness ==
    \E q \in Queries :
        /\ tree = TreePacked
        /\ rfCalls[q] = 1
        /\ HandedCount(q) = 1
        /\ nodeFetches[q] = {}

\* the offsets of the nodes of the subtree rooted at node `off`
RECURSIVE SubtreeNodes(_)
SubtreeNodes(off) ==
    LET node == tree[off]
    IN  {off} \cup
        (IF node.isLeaf = 1 THEN {}
         ELSE UNION {SubtreeNodes(node.entries[i].blockOffset) : i \in 1..Len(node.entries)})

\* the nodes of the subtrees cut off by an internal entry that fails the
\* overlaps predicate
RECURSIVE PrunedNodes(_, _)
PrunedNodes(req, off) ==
    LET node == tree[off]
    IN  IF node.isLeaf = 1 THEN {}
        ELSE UNION {IF Overlaps(node.entries[i], req)
                    THEN PrunedNodes(req, node.entries[i].blockOffset)
                    ELSE SubtreeNodes(node.entries[i].blockOffset) :
                        i \in 1..Len(node.entries)}

\* C16: no node range a query requests contains a byte of a node of a
\* subtree that the query pruned.
C16_PrunedSubtreeUnread ==
    \A q \in Queries : \A f \in nodeFetches[q] :
        \A p \in PrunedNodes(request[q], RootOffset) :
            \/ f.offset[1] + f.length[1] <= p
            \/ p + NodeBytes(tree[p]) <= f.offset[1]

(***************************************************************************)
(* Claims about Range (SpecRange).                                         *)
(***************************************************************************)
Positions(r) == {x \in 0..RangeMax : Range_contains(r, x)}
Returned(res, r) == res.ok /\ res.val = r

\* C17: union returns a range set whose intervals are sorted ascending with
\* r[i].max + 1 < r[i+1].min between consecutive ones, and which holds the
\* positions of both operands.
C17_UnionSortedSeparated ==
    rOp = "union" =>
        /\ rOut.ok
        /\ Separated(rOut.val)
        /\ Positions(rOut.val) = Positions(rA) \cup Positions(rB)

\* C18: union is commutative, associative and idempotent, results compared by
\* their interval lists.
C18_UnionAlgebra ==
    rOp = "union" =>
        /\ rOut.ok
        /\ Returned(Range_union(rB, rA), rOut.val)
        /\ Returned(Range_union(rA, rA), rA)
        /\ LET bc == Range_union(rB, rC)
           IN  /\ bc.ok
               /\ Range_union(rOut.val, rC).ok
               /\ Range_union(rOut.val, rC).val = Range_union(rA, bc.val).val

\* C19: A.intersection(A) has the interval list of A.
C19_IntersectionSelf ==
    rOp = "intersection" /\ rA = rB => Returned(rOut, rA)

\* C20: intersection returns the positions contained in both operands, as a
\* sorted list of disjoint intervals, when there are any, and fails with an
\* error when there are none.
C20_IntersectionExact ==
    rOp = "intersection" =>
        IF Positions(rA) \cap Positions(rB) = {}
        THEN ~rOut.ok
        ELSE /\ rOut.ok
             /\ Separated(rOut.val)
             /\ Positions(rOut.val) = Positions(rA) \cap Positions(rB)

\* C21: for every range set R and position p, R.contains(p) is true exactly
\* when some interval of R has min <= p <= max.
C21_ContainsIffInInterval ==
    rOp = "contains" =>
        \A p \in 0..RangeMax :
            rOut[p] <=> \E i \in 1..Len(rA) : rA[i].min <= p /\ p <= rA[i].max

(***************************************************************************)
(* Claims about decoded values (SpecDecode).                               *)
(***************************************************************************)
\* the bigWig block the decode step starts at
DecodedWigBlock == dBuffer[RecordAt("bigwig", dBuffer, dOffset)]
WigDecoded(blockType) ==
    dEmitted /\ dType = "bigwig" /\ DecodedWigBlock.blockType = blockType

\* C22: a feature decoded from item i of a fixed-step block has
\* start = blockStart + i * itemStep and end = start + itemSpan.
C22_FixedStepFromBlockStart ==
    WigDecoded(BIG_WIG_TYPE_FSTEP) =>
        LET b == DecodedWigBlock
        IN  \A k \in 1..Len(dBatch) : \E i \in 0..(Len(b.items) - 1) :
                /\ dBatch[k].start = b.blockStart + i * b.itemStep
                /\ dBatch[k].end = dBatch[k].start + b.itemSpan

\* C23: the score of a summary feature is sumData / max(validCnt, 1) of the
\* record it was decoded from (scores are fractions <<numerator, denominator>>).
C23_SummaryScore ==
    dEmitted /\ dType = "summary" =>
        \A k \in 1..Len(dBatch) : \E i \in 1..Len(dBuffer) :
            LET f == dBatch[k]
                rec == dBuffer[i]
                cnt == IF rec.validCnt >= 1 THEN rec.validCnt ELSE 1
            IN  /\ f.start = rec.start /\ f.end = rec.end /\ f.chromId = rec.chromId
                /\ f.score[2] # 0
                /\ f.score[1] * cnt = rec.sumData * f.score[2]

\* C30: the features of a variable-step block are its items that overlap the
\* request, the last one included, each with the item's start and
\* end = start + itemSpan; those of a graph block have the item's start and end.
C30_VarStepAndGraphValues ==
    LET b == DecodedWigBlock
        ItemEnd(it) == IF b.blockType = BIG_WIG_TYPE_VSTEP THEN it.start + b.itemSpan ELSE it.end
        Wanted(it) == it.start < dRequest.end /\ ItemEnd(it) >= dRequest.start
    IN  WigDecoded(BIG_WIG_TYPE_VSTEP) \/ WigDecoded(BIG_WIG_TYPE_GRAPH) =>
            /\ \A k \in 1..Len(dBatch) : \E i \in 1..Len(b.items) :
                  dBatch[k].start = b.items[i].start /\ dBatch[k].end = ItemEnd(b.items[i])
            /\ \A i \in 1..Len(b.items) :
                  Wanted(b.items[i]) =>
                      \E k \in 1..Len(dBatch) :
                          dBatch[k].start = b.items[i].start /\ dBatch[k].end = ItemEnd(b.items[i])

(***************************************************************************)
(* Claims about construction (SpecConstruct).                              *)
(***************************************************************************)
\* C24: constructing a view with a negative cirTreeOffset or a zero
\* cirTreeLength throws at construction, before any read is issued; with
\* cirTreeOffset >= 0 and cirTreeLength > 0 construction succeeds.
C24_InvalidArgumentsThrow ==
    viewState # "" =>
        /\ (IsNum(argOffset) /\ argOffset[1] < 0) \/ argLength = Num(0) =>
               viewState = "thrown" /\ viewError # "" /\ viewReads = 0
        /\ (IsNum(argOffset) /\ argOffset[1] >= 0) /\ (IsNum(argLength) /\ argLength[1] > 0) =>
               viewState = "constructed" /\ viewError = ""

\* a zero length with a valid offset has been refused
C24_Witness ==
    /\ argOffset = Num(0)
    /\ argLength = Num(0)
    /\ viewState = "thrown"
    /\ viewError = "invalid cirTreeLength!"

(***************************************************************************)
(* Claims about the traversal counter (Spec).                              *)
(***************************************************************************)
\* C27: 'did not complete' is raised for a query only when no node fetch of
\* the query is left unresolved and its outstanding counter is non-zero: not
\* by a fetch that ends while sibling ranges or child rounds are pending.
C27_DidNotCompleteOnlyAtEnd ==
    [][\A q \in Queries :
          incompletes'[q] > incompletes[q] =>
              nodeFetches'[q] = {} /\ outstanding'[q] # 0]_vars

\* C28: a query for an unknown refName issues no backing read and starts no
\* traversal: it is never waiting for a header read of its own, has no node
\* fetch, never counted an outstanding offset and never called readFeatures.
C28_UnknownRefReadsNothing ==
    \A q \in Queries :
        UnknownRef(q) =>
            /\ pc[q] # "readHeader"
            /\ nodeFetches[q] = {}
            /\ outstanding[q] = 0
            /\ rfCalls[q] = 0

\* nothing of query q is left to run: readWigData has returned, no node fetch
\* is unresolved, every group callback of readFeatures has ended and
\* Promise.all has been answered
Settled(q) ==
    /\ pc[q] = "returned"
    /\ nodeFetches[q] = {}
    /\ \A k \in 1..Len(groupGets[q]) : groupGets[q][k].status \in {"done", "rejected"}
    /\ rfState[q] # "pending"

\* C25: when every backing read succeeds (SpecReadsOk), a query for a known
\* refName does not come to rest before its outstanding counter is back at
\* zero, readFeatures has been called and its observer has received
\* complete().
C25_TraversalTerminates ==
    \A q \in Queries :
        Started(q) /\ ~UnknownRef(q) /\ Settled(q) =>
            outstanding[q] = 0 /\ rfCalls[q] >= 1 /\ completes[q] >= 1

\* the node offsets of query q that are enqueued and not yet parsed: the
\* offsets of its unresolved fetches that lie in the fetch's range
Unparsed(q) ==
    UNION {{<<f, i>> : i \in {j \in 1..Len(f.off) : Range_contains(f.fr, f.off[j])}} :
              f \in nodeFetches[q]}

\* C26: the outstanding counter of a query is never negative and equals the
\* number of its node offsets enqueued and not yet parsed; readFeatures is
\* called at most once per query, and only with the counter at zero.
C26_OutstandingCountsUnparsed ==
    \A q \in Queries :
        /\ outstanding[q] >= 0
        /\ outstanding[q] = Cardinality(Unparsed(q))
        /\ rfCalls[q] <= 1
        /\ rfCalls[q] = 1 => outstanding[q] = 0

(***************************************************************************)
(* Claims about the order of groupBlocks (SpecGroupWide).                  *)
(***************************************************************************)
\* C29: for offsets anywhere in the unsigned range, at and above the point
\* where a signed word wraps included, the blocks of the result, read group
\* by group, are in non-decreasing order of their true offsets.
C29_AscendingUnsignedOffsets ==
    gDone =>
        LET walk == FlattenGroups(gResult, 1)
        IN  \A i \in 2..Len(walk) : walk[i - 1].block.offset <= walk[i].block.offset

(***************************************************************************)
(* Claims about the blocks of a group (SpecBlocks).                        *)
(***************************************************************************)
\* C31: a bigWig block whose blockType is none of 1, 2, 3 raises no error
\* and yields the empty batch: the decoder never throws, and each such block
\* the forEach has handled got next([]).
C31_UnknownBlockTypeYieldsNothing ==
    bType = "bigwig" =>
        /\ ~bThrown
        /\ \A k \in 1..bIndex :
              parseBigWigBlockThrows(bBlocks[k], 0) => bBatches[k] = <<>>

\* The records behind the batch of block k, in batch order: the records the
\* parse loop met from the block's start offset on that pass the decoder's
\* filters, each with its byte position `at` in the buffer handed over.
Provenance(k) ==
    LET data == resultData(bType, bCompressed, bBlocks, k)
        offset == resultOffset(bType, bCompressed, bBlocks, k)
        Passes(p) == /\ bType = "summary" => Num(p.rec.chromId) = bRequest.chrId
                     /\ coordFilter(p.rec, bRequest)
    IN  SelectSeq(ParseRecords(bType, data, offset), Passes)

\* where a record of a batch lies on disk: its byte position in the group's
\* buffer, or in a compressed file its block and its position in that block
OnDisk(k, p) == IF bCompressed THEN <<k, p.at>> ELSE <<0, p.at>>

RecordLoop == bType \in {"summary", "bigbed"}

\* C32: a bigBed record decoded from a block gets uniqueId = startOffset +
\* perRecordOffset, startOffset counted once and perRecordOffset being the
\* record's byte offset from the start of the block's decoding.
C32_UniqueIdFromStartOffset ==
    bType = "bigbed" =>
        \A k \in 1..bIndex : \A j \in 1..Len(bBatches[k]) :
            LET startOffset == resultOffset(bType, bCompressed, bBlocks, k)
                perRecordOffset == Provenance(k)[j].at - startOffset
            IN  bBatches[k][j].uniqueId = Num(startOffset + perRecordOffset)

\* C33: two distinct bigBed records emitted in a query never have the same
\* uniqueId.
C33_UniqueIdsDistinct ==
    bType = "bigbed" =>
        \A k1, k2 \in 1..bIndex :
            \A j1 \in 1..Len(bBatches[k1]), j2 \in 1..Len(bBatches[k2]) :
                OnDisk(k1, Provenance(k1)[j1]) # OnDisk(k2, Provenance(k2)[j2])
                    => bBatches[k1][j1].uniqueId # bBatches[k2][j2].uniqueId

\* C34: the batch of a block holds only features of records stored in that
\* block's own byte range, and no record on disk is emitted twice.
C34_BatchFromOwnBlockOnly ==
    RecordLoop =>
        /\ \A k \in 1..bIndex : \A j \in 1..Len(bBatches[k]) :
              LET first == resultOffset(bType, bCompressed, bBlocks, k)
                  at == Provenance(k)[j].at
              IN  first <= at /\ at < first + byteLength(bType, bBlocks[k])
        /\ \A k1, k2 \in 1..bIndex :
              \A j1 \in 1..Len(bBatches[k1]), j2 \in 1..Len(bBatches[k2]) :
                  OnDisk(k1, Provenance(k1)[j1]) = OnDisk(k2, Provenance(k2)[j2])
                      => k1 = k2 /\ j1 = j2

(***************************************************************************)
(* Claims about one traversal round (SpecRound).                           *)
(***************************************************************************)
\* C35: cirFobRecur([], level) is a no-op: it issues no read, leaves the
\* outstanding counter as it was and raises no error (the descriptor
\* accumulator is written by no step of the call).
C35_EmptyRoundIsNoOp ==
    oDone /\ oOffsets = <<>> =>
        /\ oReads = {}
        /\ oOutstanding = oBefore
        /\ ~oThrown

(***************************************************************************)
(* Claims about concurrent queries (Spec).                                 *)
(***************************************************************************)
\* A query running alone, as the traversal state it can be in after
\* readWigData has returned: counter, descriptor list, number of readFeatures
\* calls and unresolved node fetches.
SoloStart(req) ==
    LET c == cirFobRecur([outstanding |-> 0, blocks |-> <<>>, fetches |-> {}, rf |-> <<>>,
                          thrown |-> FALSE, incomplete |-> FALSE], req, <<RootOffset>>, 1)
    IN  [outstanding |-> c.outstanding, blocks |-> c.blocks, rfCalls |-> Len(c.rf),
         fetches |-> c.fetches]

\* the fetch f of the lone query resumes with its buffer
SoloFetched(nodes, req, st, f) ==
    LET c == FetchLoopOn(nodes, [outstanding |-> st.outstanding, blocks |-> st.blocks,
                                 fetches |-> {}, rf |-> <<>>, thrown |-> FALSE,
                                 incomplete |-> FALSE], req, f, 1)
    IN  [outstanding |-> c.outstanding, blocks |-> c.blocks,
         rfCalls |-> st.rfCalls + Len(c.rf),
         fetches |-> (st.fetches \ {f}) \cup c.fetches]

\* the fetch f of the lone query rejects
SoloFailed(st, f) == [st EXCEPT !.fetches = @ \ {f}]

RECURSIVE SoloReach(_, _, _)
SoloReach(nodes, req, st) ==
    {st} \cup UNION {SoloReach(nodes, req, SoloFetched(nodes, req, st, f))
                         \cup SoloReach(nodes, req, SoloFailed(st, f)) : f \in st.fetches}

\* the requests a query can make
QueryRequests ==
    {[chrId |-> ChrIdOf(name), start |-> range[1], end |-> range[2]] :
        name \in RefNames, range \in QueryRanges}

\* per file and request, the traversal states of the query running alone
SoloStates ==
    [nodes \in Trees |-> [req \in QueryRequests |-> SoloReach(nodes, req, SoloStart(req))]]

WithoutStatus(f) == [x \in DOMAIN f \ {"status"} |-> f[x]]

TraversalState(q) ==
    [outstanding |-> outstanding[q], blocks |-> blocksToFetch[q], rfCalls |-> rfCalls[q],
     fetches |-> {WithoutStatus(f) : f \in nodeFetches[q]}]

\* C36: concurrent queries on one view do not interfere: whatever the other
\* queries do and however the reads interleave, the counter, the descriptor
\* list, the pending node fetches and the readFeatures calls of a query are
\* those of a run of the query alone, and so are the group fetches its
\* batches come from.
C36_QueriesDoNotInterfere ==
    \A q \in Queries :
        /\ pc[q] \in {"idle", "readHeader", "awaitHeader", "rejected"} =>
              /\ outstanding[q] = 0 /\ blocksToFetch[q] = <<>>
              /\ rfCalls[q] = 0 /\ nodeFetches[q] = {}
        /\ pc[q] = "returned" =>
              /\ TraversalState(q) \in SoloStates[tree][request[q]]
              /\ rfCalls[q] = 1 =>
                    [k \in 1..Len(groupGets[q]) |-> groupGets[q][k].key]
                        = [k \in 1..Len(GroupFetches(request[q], blocksToFetch[q])) |->
                              GroupFetches(request[q], blocksToFetch[q])[k].key]

\* two queries for different ranges are in their traversals at the same time,
\* one a round ahead of the other
C36_Witness ==
    \E q1, q2 \in Queries :
        /\ q1 # q2
        /\ pc[q1] = "returned" /\ pc[q2] = "returned"
        /\ request[q1] # request[q2]
        /\ \E f1 \in nodeFetches[q1], f2 \in nodeFetches[q2] : f1.level # f2.level

(***************************************************************************)
(* Claims about groupBlocks as a function of the discovery order           *)
(* (SpecGroup).                                                            *)
(***************************************************************************)
\* the same blocks in another order of discovery
Reorderings(blocks) ==
    LET n == Len(blocks)
        perms == {f \in [1..n -> 1..n] : \A i, j \in 1..n : f[i] = f[j] => i = j}
    IN  {[i \in 1..n |-> blocks[f[i]]] : f \in perms}

DistinctOffsets(blocks) ==
    \A i, j \in 1..Len(blocks) : blocks[i].offset = blocks[j].offset => i = j

StoredFeatures ==
    DecodeBatch(dType, dBuffer, 0,
                [chrId |-> dRequest.chrId, start |-> 0 - 1000, end |-> 1000])

\* the leaf entry lies on the requested chromosome and its bases bound every
\* feature stored in its block
EntryBounds ==
    /\ Num(dEntry.startChrom) = dRequest.chrId
    /\ Num(dEntry.endChrom) = dRequest.chrId
    /\ dType # "bigwig" => Len(StoredFeatures) = Len(dBuffer)
    /\ \A i \in 1..Len(StoredFeatures) :
          dEntry.startBase <= StoredFeatures[i].start
              /\ StoredFeatures[i].end <= dEntry.endBase

Matching(f) == f.start < dRequest.end /\ f.end >= dRequest.start

\* C38: pruning is conservative: an entry on the requested chromosome whose
\* bases bound every feature beneath it, one of which passes the feature
\* filter, passes filterFeats: its block is decoded, never pruned.
C38_PruningConservative ==
    (dPruned \/ dEmitted) /\ EntryBounds
        /\ (\E i \in 1..Len(StoredFeatures) : Matching(StoredFeatures[i]))
            => dEmitted /\ ~dPruned

\* a block whose only feature ends exactly at the request's start, under an
\* entry with exactly the feature's bounds, was decoded and the feature emitted
C38_Witness ==
    /\ dEmitted
    /\ dType = "bigbed"
    /\ EntryBounds
    /\ Len(dBuffer) = 1
    /\ dBuffer[1].end = dRequest.start
    /\ dEntry.endBase = dBuffer[1].end
    /\ Len(dBatch) = 1

(***************************************************************************)
(* Claims about the buffer a node fetch reads (Spec).                      *)
(***************************************************************************)
\* C39: for every node fetch of a traversal round and every offset o of the
\* round that the fetch's range contains, the buffer read for the range
\* (offset fr.min, length fr.max - fr.min) holds at least
\* maxCirBlockSpan = 4 + cirBlockSize * 32 bytes from position o - fr.min on.
C39_FetchCoversWholeNode ==
    \A q \in Queries : \A f \in nodeFetches[q] : \A i \in 1..Len(f.off) :
        Range_contains(f.fr, f.off[i]) =>
            /\ IsNum(f.length) /\ IsNum(f.offset)
            /\ f.offset[1] = Range_min(f.fr)
            /\ f.off[i] - f.offset[1] >= 0
            /\ f.length[1] - (f.off[i] - f.offset[1]) >= maxCirBlockSpan

\* a fetch of a child node, started by a round below the root, is pending
C39_Witness ==
    \E q \in Queries : \E f \in nodeFetches[q] :
        /\ f.level >= 2
        /\ Range_contains(f.fr, f.off[1])
        /\ f.length = Num(maxCirBlockSpan)

(***************************************************************************)
(* Claims about groupBlocks as a partition of its input (SpecGroup).       *)
(***************************************************************************)
\* how many positions of the input list hold block b
InputCount(b) == Cardinality({i \in 1..Len(gInput) : gInput[i] = b})

\* how many places of the returned groups' blocks lists hold block b
GroupedCount(b) ==
    LET flat == FlattenGroups(gResult, 1)
    IN  Cardinality({i \in 1..Len(flat) : flat[i].block = b})

\* C40: groupBlocks partitions its input: every input block is in the blocks
\* list of exactly one returned group, as often as it was passed in, no
\* returned block is foreign to the input, no group is empty, and the empty
\* list gives the empty list.
C40_GroupsPartitionInput ==
    gDone =>
        /\ \A i \in 1..Len(gInput) : GroupedCount(gInput[i]) = InputCount(gInput[i])
        /\ \A k \in 1..Len(gResult) : \A i \in 1..Len(gResult[k].blocks) :
              InputCount(gResult[k].blocks[i]) >= 1
        /\ \A k \in 1..Len(gResult) : gResult[k].blocks # <<>>
        /\ gInput = <<>> => gResult = <<>>

\* three different blocks were split into a group of two and a group of one
C40_Witness ==
    /\ gDone
    /\ Len(gInput) = 3
    /\ \A i, j \in 1..3 : i # j => gInput[i] # gInput[j]
    /\ Len(gResult) = 2
    /\ Len(gResult[1].blocks) = 2
    /\ Len(gResult[2].blocks) = 1
====
